---- MODULE Spec2Model ----
(***************************************************************************)
(* A model of the microformats parser (package microformats): the walker   *)
(* parser.walk, the rel / rel-urls recording, the implied property         *)
(* ladders and the backcompat root and property translation.               *)
(*                                                                         *)
(* Representation of Go values                                             *)
(*   string      a sequence of chunks; a chunk is either the blank " " or  *)
(*               an atomic non-blank piece ("h-card", "Hi", "/", ...).     *)
(*               "" is <<>>.  No chunk of the vocabulary is the            *)
(*               concatenation of other chunks, so equality of sequences   *)
(*               is equality of the strings.                               *)
(*   *T          <<>> for nil, <<x>> for a pointer to x.                   *)
(*   *url.URL    a record [origin, path]: origin is <<>> or                *)
(*               <<"http://host">>, path a sequence of "/" and name chunks *)
(*   *html.Node  an index into doc.node; 0 is the nil node                 *)
(*   *Microformat an index into heap; 0 is nil                             *)
(***************************************************************************)
EXTENDS Integers, Sequences, FiniteSets, TLC

\* ------------------------------------------------------------------------
\* Bounds of the model
\* ------------------------------------------------------------------------
\* number of nodes below the document node
MaxNodes == 3

\* the value elements below the dt-* element of the date documents
MaxFragments == 3

\* the calls of walk that can be active at once
MaxDepth == 8

\* ------------------------------------------------------------------------
\* Strings
\* ------------------------------------------------------------------------
WS == " "

None == <<>>

Some(x) == <<x>>

RECURSIVE TrimLeft(_)
TrimLeft(s) ==
    IF s = <<>> THEN <<>>
    ELSE IF Head(s) = WS THEN TrimLeft(Tail(s)) ELSE s

RECURSIVE TrimRight(_)
TrimRight(s) ==
    IF s = <<>> THEN <<>>
    ELSE IF s[Len(s)] = WS THEN TrimRight(SubSeq(s, 1, Len(s) - 1)) ELSE s

\* strings.TrimSpace
TrimSpace(s) == TrimRight(TrimLeft(s))

IsBlankChunk(c) == c = WS

\* strings.Fields: the maximal non-blank pieces of s.  Class, rel and itemref
\* attribute values are written with a blank between any two tokens.
Fields(s) == SelectSeq(s, LAMBDA c : ~IsBlankChunk(c))

RECURSIVE Concat(_)
Concat(ss) == IF ss = <<>> THEN <<>> ELSE Head(ss) \o Concat(Tail(ss))

Range(s) == {s[i] : i \in 1..Len(s)}

\* ------------------------------------------------------------------------
\* URLs (net/url as used by expandURL and the <base> handling)
\* ------------------------------------------------------------------------
Origins == {"http://example.com", "http://other.example"}

\* url.Parse fails on an invalid percent escape
ParseOK(s) == \A i \in 1..Len(s) : s[i] # "%"

\* url.Parse(s), for a string s with ParseOK(s)
ParseURL(s) ==
    IF s # <<>> /\ Head(s) \in Origins
    THEN [origin |-> <<Head(s)>>, path |-> Tail(s)]
    ELSE [origin |-> <<>>, path |-> s]

\* (*URL).String: blanks of the path are percent-escaped
URLString(u) ==
    u.origin \o [i \in 1..Len(u.path) |-> IF u.path[i] = WS THEN "%20" ELSE u.path[i]]

RECURSIVE DirOf(_)
\* the path up to and including its last "/"
DirOf(p) ==
    IF p = <<>> THEN <<>>
    ELSE IF p[Len(p)] = "/" THEN p ELSE DirOf(SubSeq(p, 1, Len(p) - 1))

\* (*URL).ResolveReference(r) on the receiver base (<<>> for a nil receiver,
\* which is dereferenced only when r carries no scheme)
ResolveReference(base, r) ==
    IF r.origin # <<>> THEN r
    ELSE LET b == base[1] IN
         IF r.path = <<>> THEN b
         ELSE IF Head(r.path) = "/" THEN [origin |-> b.origin, path |-> r.path]
         ELSE IF DirOf(b.path) = <<>> /\ b.origin # <<>>
              THEN [origin |-> b.origin, path |-> <<"/">> \o r.path]
              ELSE [origin |-> b.origin, path |-> DirOf(b.path) \o r.path]

\* expandURL(r, base): base is <<>> (nil) or <<url>>
expandURL(r, base) ==
    IF base # <<>> /\ ParseOK(r)
    THEN URLString(ResolveReference(base, ParseURL(r)))
    ELSE r

\* ------------------------------------------------------------------------
\* The DOM: D.parent[i] is the parent of node i (0 for the document node 1),
\* D.node[i] = [type, tag, attr, data].  Nodes are numbered in document
\* order, so the children of a node are its child indices in ascending order.
\* ------------------------------------------------------------------------
NoAttr == [a \in {} |-> a]

NodeIds(D) == 1..Len(D.node)

Children(D, n) ==
    IF n = 0 THEN <<1>>
    ELSE SelectSeq([i \in 1..Len(D.node) |-> i], LAMBDA i : D.parent[i] = n)

\* getAttrPtr: <<>> when node is nil or has no such attribute, else a pointer
\* into the node's attribute list
getAttrPtr(D, n, name) ==
    IF n = 0 THEN None
    ELSE IF name \in DOMAIN D.node[n].attr THEN Some(<<n, name>>) ELSE None

Deref(D, ptr) == D.node[ptr[1][1]].attr[ptr[1][2]]

getAttr(D, n, name) ==
    IF getAttrPtr(D, n, name) # None THEN Deref(D, getAttrPtr(D, n, name)) ELSE <<>>

hasAttr(D, n, name) == getAttrPtr(D, n, name) # None

isAtom(D, n, atoms) ==
    IF n = 0 THEN FALSE
    ELSE D.node[n].type = "element" /\ D.node[n].tag \in atoms

getClasses(D, n) ==
    IF getAttrPtr(D, n, "class") # None THEN Fields(Deref(D, getAttrPtr(D, n, "class"))) ELSE <<>>

RECURSIVE getTextContent(_, _, _, _)
\* imageAltValue
imageAltValue(D, n) == getAttr(D, n, "alt")

\* parser.imageAltSrcValue
imageAltSrcValue(D, n, base) ==
    IF getAttrPtr(D, n, "alt") # None THEN Deref(D, getAttrPtr(D, n, "alt"))
    ELSE IF getAttrPtr(D, n, "src") # None
         THEN <<WS>> \o expandURL(Deref(D, getAttrPtr(D, n, "src")), base) \o <<WS>>
         ELSE <<>>

\* getTextContent(node, imgFn); imgFn is "nil", "alt" (imageAltValue) or
\* "altsrc" (p.imageAltSrcValue, which reads p.base)
getTextContent(D, n, imgFn, base) ==
    IF n = 0 THEN <<>>
    ELSE IF isAtom(D, n, {"script", "style", "template"}) THEN <<>>
    ELSE IF isAtom(D, n, {"img"}) /\ imgFn # "nil"
         THEN IF imgFn = "alt" THEN imageAltValue(D, n) ELSE imageAltSrcValue(D, n, base)
    ELSE IF D.node[n].type = "text" THEN D.node[n].data
    ELSE LET kids == Children(D, n) IN
         Concat([i \in 1..Len(kids) |-> getTextContent(D, kids[i], imgFn, base)])

ElementChildren(D, n) ==
    SelectSeq(Children(D, n), LAMBDA c : D.node[c].type = "element")

\* getOnlyChild: the sole element child of node, nil (0) otherwise
getOnlyChild(D, n) ==
    IF n = 0 THEN 0
    ELSE IF Len(ElementChildren(D, n)) = 1 THEN ElementChildren(D, n)[1] ELSE 0

\* getOnlyChildAtom: the sole element child of node with the given atom
getOnlyChildAtom(D, n, atom) ==
    IF n = 0 THEN 0
    ELSE LET m == SelectSeq(ElementChildren(D, n), LAMBDA c : D.node[c].tag = atom) IN
         IF Len(m) = 1 THEN m[1] ELSE 0

\* ------------------------------------------------------------------------
\* Class vocabularies
\* ------------------------------------------------------------------------
\* the class names of the model's vocabulary that match
\* ^h-([a-z0-9]+-)?[a-z]+(-[a-z]+)*$   ("h-" and "h-1" do not)
rootClassNames == {"h-card", "h-entry", "h-adr", "h-event", "h-review", "h-feed"}

\* the class names of the vocabulary that match
\* ^(p|u|dt|e)-([a-z0-9]+-)?[a-z]+(-[a-z]+)*$, with strings.SplitN(c, "-", 2)
propertyClassNames ==
    [c \in {"p-name", "p-author", "p-note", "u-url", "u-photo", "u-name", "e-content",
            "dt-start", "dt-end", "p-photo", "p-url", "dt-name"} |->
        CASE c = "p-name"    -> <<"p", "name">>
          [] c = "p-author"  -> <<"p", "author">>
          [] c = "p-note"    -> <<"p", "note">>
          [] c = "p-photo"   -> <<"p", "photo">>
          [] c = "p-url"     -> <<"p", "url">>
          [] c = "u-url"     -> <<"u", "url">>
          [] c = "u-photo"   -> <<"u", "photo">>
          [] c = "u-name"    -> <<"u", "name">>
          [] c = "e-content" -> <<"e", "content">>
          [] c = "dt-start"  -> <<"dt", "start">>
          [] c = "dt-end"    -> <<"dt", "end">>
          [] c = "dt-name"   -> <<"dt", "name">>]

\* hasMatchingClass(node, rootClassNames)
hasMatchingClass(D, n, regex) ==
    \E i \in 1..Len(getClasses(D, n)) : getClasses(D, n)[i] \in regex

\* the h-* names in ascending byte order (the order of sort.Strings)
ByteOrder ==
    <<"h-adr", "h-card", "h-entry", "h-event", "h-feed", "h-geo", "h-news", "h-product",
      "h-recipe", "h-resume", "h-review", "h-review-aggregate">>

IndexOf(s, x) == CHOOSE i \in 1..Len(s) : s[i] = x

StrLessEq(a, b) == IndexOf(ByteOrder, a) <= IndexOf(ByteOrder, b)

RECURSIVE InsertSorted(_, _)
InsertSorted(s, x) ==
    IF s = <<>> THEN <<x>>
    ELSE IF StrLessEq(x, Head(s)) THEN <<x>> \o s
    ELSE <<Head(s)>> \o InsertSorted(Tail(s), x)

RECURSIVE SortStrings(_)
\* sort.Strings leaving the slice as it is
SortStringsKeepOrder(s) == s

\* sort.Strings
SortStrings(s) ==
    IF s = <<>> THEN <<>> ELSE InsertSorted(SortStrings(Tail(s)), Head(s))

\* ------------------------------------------------------------------------
\* Implied properties
\* ------------------------------------------------------------------------
\* the first alternative of a ladder that is not nil
FirstOf(alts) ==
    LET hits == SelectSeq(alts, LAMBDA v : v # None) IN
    IF hits = <<>> THEN None ELSE hits[1]

Guarded(cond, v) == IF cond THEN v ELSE None

\* the switch of getImpliedName on one node: a pointer to alt / title, or nil
NameAttrPtr(D, n) ==
    IF isAtom(D, n, {"img", "area"}) THEN getAttrPtr(D, n, "alt")
    ELSE IF isAtom(D, n, {"abbr"}) THEN getAttrPtr(D, n, "title")
    ELSE None

\* the test "subnode != nil && !hasMatchingClass(subnode, rootClassNames)":
\* the node c when it passes, nil (0) otherwise
NoRoot(D, c) == IF c # 0 /\ ~hasMatchingClass(D, c, rootClassNames) THEN c ELSE 0

\* the end of getImpliedName: name is the pointer the three steps found.
\* The field from of the three implied ladders is not part of what the Go
\* functions return: it names the node whose attribute was read (0 when none
\* was).
ImpliedName(D, n, name) ==
    [name |-> IF name = None THEN TrimSpace(getTextContent(D, n, "alt", None))
              ELSE TrimSpace(Deref(D, name)),
     from |-> IF name = None THEN 0 ELSE name[1][1]]

\* getImpliedName: each step runs while name is nil, on the node, on its only
\* child and on the only child of that
getImpliedName(D, n) ==
    ImpliedName(D, n,
        FirstOf(<<NameAttrPtr(D, n),
                  NameAttrPtr(D, NoRoot(D, getOnlyChild(D, n))),
                  NameAttrPtr(D, NoRoot(D, getOnlyChild(D, NoRoot(D, getOnlyChild(D, n)))))>>))

\* a step of getImpliedPhoto that leaves photo = ptr and alt = alt; nil when
\* ptr is nil, and then the next step runs
PhotoAt(ptr, alt) == IF ptr = None THEN None ELSE Some([ptr |-> ptr, alt |-> alt])

\* the switch of getImpliedPhoto on node itself
PhotoOfNode(D, n) ==
    IF isAtom(D, n, {"img"}) THEN getAttrPtr(D, n, "src")
    ELSE IF isAtom(D, n, {"object"}) THEN getAttrPtr(D, n, "data")
    ELSE None

AltOfNode(D, n) == IF isAtom(D, n, {"img"}) THEN getAttr(D, n, "alt") ELSE <<>>

\* the steps on an img node c: photo and alt are taken from c
PhotoOfImg(D, c) ==
    IF c # 0 /\ hasAttr(D, c, "src") /\ ~hasMatchingClass(D, c, rootClassNames)
    THEN PhotoAt(getAttrPtr(D, c, "src"), getAttr(D, c, "alt"))
    ELSE None

\* the steps on an object node c: photo is taken from c, alt stays what the
\* switch on node made it
PhotoOfObject(D, c, alt) ==
    IF c # 0 /\ ~hasMatchingClass(D, c, rootClassNames)
    THEN PhotoAt(getAttrPtr(D, c, "data"), alt)
    ELSE None

\* the end of getImpliedPhoto: hit is the step that set photo, alt0 the alt
\* of the switch on node
ImpliedPhoto(D, base, alt0, hit) ==
    [src |-> IF hit = None THEN <<>> ELSE expandURL(Deref(D, hit[1].ptr), base),
     alt |-> IF hit = None THEN alt0 ELSE hit[1].alt,
     from |-> IF hit = None THEN 0 ELSE hit[1].ptr[1][1]]

\* getImpliedPhoto returns (src, alt): each step runs while photo is nil
getImpliedPhoto(D, n, base) ==
    ImpliedPhoto(D, base, AltOfNode(D, n),
        FirstOf(<<PhotoAt(PhotoOfNode(D, n), AltOfNode(D, n)),
                  PhotoOfImg(D, getOnlyChildAtom(D, n, "img")),
                  PhotoOfObject(D, getOnlyChildAtom(D, n, "object"), AltOfNode(D, n)),
                  PhotoOfImg(D, getOnlyChildAtom(D, NoRoot(D, getOnlyChild(D, n)), "img")),
                  PhotoOfObject(D, getOnlyChildAtom(D, NoRoot(D, getOnlyChild(D, n)), "object"),
                                AltOfNode(D, n))>>))

\* the steps of getImpliedURL on a child c
HrefOfChild(D, c) ==
    IF c # 0 /\ ~hasMatchingClass(D, c, rootClassNames) THEN getAttrPtr(D, c, "href") ELSE None

\* the end of getImpliedURL: value is the pointer the steps found
ImpliedURL(D, base, value) ==
    [url |-> IF value = None THEN <<>> ELSE expandURL(Deref(D, value), base),
     from |-> IF value = None THEN 0 ELSE value[1][1]]

\* getImpliedURL: each step runs while value is nil
getImpliedURL(D, n, base) ==
    ImpliedURL(D, base,
        FirstOf(<<Guarded(isAtom(D, n, {"a", "area"}), getAttrPtr(D, n, "href")),
                  HrefOfChild(D, getOnlyChildAtom(D, n, "a")),
                  HrefOfChild(D, getOnlyChildAtom(D, n, "area")),
                  HrefOfChild(D, getOnlyChildAtom(D, NoRoot(D, getOnlyChild(D, n)), "a")),
                  HrefOfChild(D, getOnlyChildAtom(D, NoRoot(D, getOnlyChild(D, n)), "area"))>>))

\* ------------------------------------------------------------------------
\* Backcompat translation tables.  A prefixed class "p-name" of the Go tables
\* is written as the pair <<"p", "name">> that strings.SplitN(c, "-", 2) makes
\* of it.
\* ------------------------------------------------------------------------
backcompatRootMap ==
    ("adr" :> "h-adr") @@ ("geo" :> "h-geo") @@ ("hentry" :> "h-entry") @@
    ("hfeed" :> "h-feed") @@ ("hnews" :> "h-news") @@ ("hproduct" :> "h-product") @@
    ("hrecipe" :> "h-recipe") @@ ("hresume" :> "h-resume") @@
    ("hreview" :> "h-review") @@ ("hreview-aggregate" :> "h-review-aggregate") @@
    ("vcard" :> "h-card") @@ ("vevent" :> "h-event")

backcompatPropertyMap ==
    ("author" :> <<"p", "author">>) @@ ("description" :> <<"p", "description">>) @@
    ("job-title" :> <<"p", "job-title">>) @@
    ("organization-name" :> <<"p", "organization-name">>) @@
    ("organization-unit" :> <<"p", "organization-unit">>) @@
    ("published" :> <<"dt", "published">>) @@ ("summary" :> <<"p", "summary">>) @@
    ("title" :> <<"p", "title">>) @@ ("worst" :> <<"p", "worst">>)

backcompatPropertyOverrideMap ==
    ("h-adr" :> (
        ("country-name" :> <<"p", "country-name">>) @@
        ("extended-address" :> <<"p", "extended-address">>) @@
        ("locality" :> <<"p", "locality">>) @@
        ("post-office-box" :> <<"p", "post-office-box">>) @@
        ("postal-code" :> <<"p", "postal-code">>) @@ ("region" :> <<"p", "region">>) @@
        ("street-address" :> <<"p", "street-address">>))) @@
    ("h-card" :> (
        ("additional-name" :> <<"p", "additional-name">>) @@
        ("adr" :> <<"p", "adr">>) @@ ("agent" :> <<"p", "agent">>) @@
        ("bday" :> <<"dt", "bday">>) @@ ("category" :> <<"p", "category">>) @@
        ("class" :> <<"p", "class">>) @@ ("email" :> <<"u", "email">>) @@
        ("family-name" :> <<"p", "family-name">>) @@ ("fn" :> <<"p", "name">>) @@
        ("geo" :> <<"p", "geo">>) @@ ("given-name" :> <<"p", "given-name">>) @@
        ("honorific-prefix" :> <<"p", "honorific-prefix">>) @@
        ("honorific-suffix" :> <<"p", "honorific-suffix">>) @@
        ("key" :> <<"u", "key">>) @@ ("label" :> <<"p", "label">>) @@
        ("logo" :> <<"u", "logo">>) @@ ("mailer" :> <<"p", "mailer">>) @@
        ("nickname" :> <<"p", "nickname">>) @@ ("note" :> <<"p", "note">>) @@
        ("org" :> <<"p", "org">>) @@ ("photo" :> <<"u", "photo">>) @@
        ("rev" :> <<"dt", "rev">>) @@ ("role" :> <<"p", "role">>) @@
        ("sort-string" :> <<"p", "sort-string">>) @@ ("sound" :> <<"u", "sound">>) @@
        ("tel" :> <<"p", "tel">>) @@ ("title" :> <<"p", "job-title">>) @@
        ("tz" :> <<"dt", "tz">>) @@ ("uid" :> <<"u", "uid">>) @@
        ("url" :> <<"u", "url">>))) @@
    ("h-entry" :> (
        ("author" :> <<"p", "author">>) @@ ("entry-content" :> <<"e", "content">>) @@
        ("entry-summary" :> <<"p", "summary">>) @@
        ("entry-title" :> <<"p", "name">>) @@ ("published" :> <<"dt", "published">>) @@
        ("summary" :> <<"p", "summary">>) @@ ("updated" :> <<"dt", "updated">>))) @@
    ("h-event" :> (
        ("attendee" :> <<"p", "attendee">>) @@ ("category" :> <<"p", "category">>) @@
        ("description" :> <<"p", "description">>) @@ ("dtend" :> <<"dt", "end">>) @@
        ("dtstart" :> <<"dt", "start">>) @@ ("duration" :> <<"dt", "duration">>) @@
        ("location" :> <<"p", "location">>) @@ ("summary" :> <<"p", "name">>) @@
        ("url" :> <<"u", "url">>))) @@
    ("h-feed" :> (
        ("author" :> <<"p", "author">>) @@ ("entry" :> <<"p", "entry">>) @@
        ("photo" :> <<"u", "photo">>) @@ ("url" :> <<"u", "url">>))) @@
    ("h-geo" :> (
        ("latitude" :> <<"p", "latitude">>) @@ ("longitude" :> <<"p", "longitude">>))) @@
    ("h-news" :> (
        ("dateline" :> <<"p", "dateline">>) @@ ("entry" :> <<"p", "entry">>) @@
        ("geo" :> <<"p", "geo">>) @@ ("source-org" :> <<"p", "source-org">>))) @@
    ("h-product" :> (
        ("brand" :> <<"p", "brand">>) @@ ("category" :> <<"p", "category">>) @@
        ("description" :> <<"p", "description">>) @@ ("fn" :> <<"p", "name">>) @@
        ("listing" :> <<"p", "listing">>) @@ ("photo" :> <<"u", "photo">>) @@
        ("price" :> <<"p", "price">>) @@ ("review" :> <<"p", "review">>) @@
        ("url" :> <<"u", "url">>))) @@
    ("h-resume" :> (
        ("affiliation" :> <<"p", "affiliation">>) @@
        ("contact" :> <<"p", "contact">>) @@ ("education" :> <<"p", "education">>) @@
        ("experience" :> <<"p", "experience">>) @@
        ("publications" :> <<"p", "publications">>) @@ ("skill" :> <<"p", "skill">>) @@
        ("summary" :> <<"p", "summary">>))) @@
    ("h-review" :> (
        ("description" :> <<"e", "content">>) @@
        ("dtreviewed" :> <<"dt", "reviewed">>) @@ ("item" :> <<"p", "item">>) @@
        ("rating" :> <<"p", "rating">>) @@ ("reviewer" :> <<"p", "author">>) @@
        ("summary" :> <<"p", "name">>))) @@
    ("h-review-aggregate" :> (
        ("average" :> <<"p", "average">>) @@ ("best" :> <<"p", "best">>) @@
        ("count" :> <<"p", "count">>) @@ ("item" :> <<"p", "item">>) @@
        ("rating" :> <<"p", "rating">>) @@ ("summary" :> <<"p", "name">>) @@
        ("votes" :> <<"p", "votes">>)))

backcompatRelMap ==
    ("h-entry" :> (
        ("bookmark" :> <<"u", "url">>))) @@
    ("h-feed" :> (
        ("tag" :> <<"u", "category">>))) @@
    ("h-news" :> (
        ("principles" :> <<"u", "principles">>))) @@
    ("h-review" :> (
        ("bookmark" :> <<"u", "url">>) @@ ("tag" :> <<"u", "category">>)))


InMap(m, k) == k \in DOMAIN m

\* backcompatRootClasses: the translations of the v1 root classes, in class
\* order
backcompatRootClasses(classes) ==
    LET hits == SelectSeq(classes, LAMBDA c : InMap(backcompatRootMap, c)) IN
    [i \in 1..Len(hits) |-> backcompatRootMap[hits[i]]]

RECURSIVE TranslateInto(_, _, _, _, _)
\* the two loops of backcompatPropertyClasses over (keys x context), writing
\* classmap[name] = c for every hit of table; k and j are the loop indices
TranslateInto(classmap, table, keys, context, kj) ==
    LET k == kj[1]
        j == kj[2]
    IN  IF k > Len(keys) THEN classmap
        ELSE IF j > Len(context) THEN TranslateInto(classmap, table, keys, context, <<k + 1, 1>>)
        ELSE LET ctx == context[j]
                 hit == InMap(table, ctx) /\ InMap(table[ctx], keys[k])
                 c   == table[ctx][keys[k]]
             IN  TranslateInto(IF hit THEN (c[2] :> c) @@ classmap ELSE classmap,
                               table, keys, context, <<k, j + 1>>)

\* backcompatClassMap with the two loops in the other order: the translation
\* of a class replaces that of a rel value with the same name
backcompatClassMapClassesLast(classes, rels, context) ==
    TranslateInto(
        TranslateInto([x \in {} |-> x], backcompatRelMap, rels, context, <<1, 1>>),
        backcompatPropertyOverrideMap, classes, context, <<1, 1>>)

\* classmap after the loop over the classes and the loop over the rels
backcompatClassMap(classes, rels, context) ==
    TranslateInto(
        TranslateInto([x \in {} |-> x], backcompatPropertyOverrideMap, classes, context, <<1, 1>>),
        backcompatRelMap, rels, context, <<1, 1>>)

Perms(S) == {q \in [1..Cardinality(S) -> S] : \A i, j \in 1..Cardinality(S) : q[i] = q[j] => i = j}

\* backcompatPropertyClasses: the values of classmap in the order in which
\* the range over the Go map yields them, which is any order; the operator is
\* the set of the slices the call can return
backcompatPropertyClasses(classes, rels, context) ==
    LET classmap == backcompatClassMap(classes, rels, context) IN
    Perms({classmap[k] : k \in DOMAIN classmap})

\* path.Base(p.Path) of backcompatURLCategory: the last name of the path
RECURSIVE LastName(_)
LastName(p) ==
    IF p = <<>> THEN <<>>
    ELSE IF p[Len(p)] = "/" THEN LastName(SubSeq(p, 1, Len(p) - 1)) ELSE <<p[Len(p)]>>

backcompatURLCategory(s) ==
    IF s = <<>> THEN s
    ELSE IF ParseOK(s)
         THEN LET p == ParseURL(s).path IN
              IF p = <<>> THEN <<".">> ELSE IF LastName(p) = <<>> THEN <<"/">> ELSE LastName(p)
         ELSE s

\* ------------------------------------------------------------------------
\* Value-class pattern
\* ------------------------------------------------------------------------
\* ValueClassOf with class value looked at before class value-title
ValueClassOfValueFirst(D, c, dt, base) ==
    LET classes == getClasses(D, c)
        valueClass == \E i \in 1..Len(classes) : classes[i] = "value"
        valueTitleClass == \E i \in 1..Len(classes) : classes[i] = "value-title"
    IN  IF valueClass THEN
            IF isAtom(D, c, {"img", "area"}) /\ hasAttr(D, c, "alt") THEN <<getAttr(D, c, "alt")>>
            ELSE IF isAtom(D, c, {"data"}) /\ hasAttr(D, c, "value") THEN <<getAttr(D, c, "value")>>
            ELSE IF isAtom(D, c, {"abbr"}) /\ hasAttr(D, c, "title") THEN <<getAttr(D, c, "title")>>
            ELSE IF dt /\ isAtom(D, c, {"del", "ins", "time"}) /\ hasAttr(D, c, "datetime")
                 THEN <<getAttr(D, c, "datetime")>>
            ELSE <<TrimSpace(getTextContent(D, c, "nil", base))>>
        ELSE IF valueTitleClass THEN <<getAttr(D, c, "title")>>
        ELSE <<>>

\* the contribution of one child c of parseValueClassPattern: <<>> when c
\* contributes nothing, else <<string>>
ValueClassOf(D, c, dt, base) ==
    LET classes == getClasses(D, c)
        valueClass == \E i \in 1..Len(classes) : classes[i] = "value"
        valueTitleClass == \E i \in 1..Len(classes) : classes[i] = "value-title"
    IN  IF valueTitleClass THEN <<getAttr(D, c, "title")>>
        ELSE IF valueClass THEN
            IF isAtom(D, c, {"img", "area"}) /\ hasAttr(D, c, "alt") THEN <<getAttr(D, c, "alt")>>
            ELSE IF isAtom(D, c, {"data"}) /\ hasAttr(D, c, "value") THEN <<getAttr(D, c, "value")>>
            ELSE IF isAtom(D, c, {"abbr"}) /\ hasAttr(D, c, "title") THEN <<getAttr(D, c, "title")>>
            ELSE IF dt /\ isAtom(D, c, {"del", "ins", "time"}) /\ hasAttr(D, c, "datetime")
                 THEN <<getAttr(D, c, "datetime")>>
            ELSE <<TrimSpace(getTextContent(D, c, "nil", base))>>
        ELSE <<>>

\* parseValueClassPattern(node, dt): the slice of contributed strings
parseValueClassPattern(D, n, dt, base) ==
    IF n = 0 THEN <<>>
    ELSE LET kids == Children(D, n) IN
         Concat([i \in 1..Len(kids) |-> ValueClassOf(D, kids[i], dt, base)])

\* getValueClassPattern: nil, or a pointer to the joined values
getValueClassPattern(D, n, base) ==
    LET values == parseValueClassPattern(D, n, FALSE, base) IN
    IF Len(values) > 0 THEN Some(Concat(values)) ELSE None


\* ------------------------------------------------------------------------
\* Date and time values (datetime.go)
\* ------------------------------------------------------------------------
DateChunks == {"2015-02-03", "2006-01-02", "2007-01-02"}

TimeChunks == {"21:15", "21:15:00", "01:02:03", "03:04:05"}

TZChunks == {"Z", "-08:00", "-0800"}

\* the canonical form of a timezone: no colon
TZCanon(z) == IF z = "-08:00" THEN "-0800" ELSE z

dtKind(c) ==
    IF c \in DateChunks THEN "d"
    ELSE IF c \in TimeChunks THEN "t"
    ELSE IF c \in TZChunks THEN "z"
    ELSE "?"

\* the date, time and timezone pieces of a fragment, without the "T" or blank
\* that separates date and time
dtPieces(s) == SelectSeq(TrimSpace(s), LAMBDA c : c \notin {WS, "T"})

dtShape(s) == [i \in 1..Len(dtPieces(s)) |-> dtKind(dtPieces(s)[i])]

dtValid(s) ==
    dtShape(s) \in {<<"d">>, <<"d", "t">>, <<"d", "t", "z">>, <<"t">>, <<"t", "z">>, <<"z">>}

dtZero == [date |-> <<>>, time |-> <<>>, tz |-> <<>>]

dtPiece(s, kind) ==
    LET hits == SelectSeq(dtPieces(s), LAMBDA c : dtKind(c) = kind) IN
    IF hits = <<>> THEN <<>> ELSE <<hits[1]>>

\* datetime.Parse: a fragment sets the fields it carries that are not yet
\* set; a fragment of no accepted form is discarded
dtParse(acc, s) ==
    IF ~dtValid(s) THEN acc
    ELSE [date |-> IF acc.date = <<>> THEN dtPiece(s, "d") ELSE acc.date,
          time |-> IF acc.time = <<>> THEN dtPiece(s, "t") ELSE acc.time,
          tz   |-> IF acc.tz = <<>> THEN dtPiece(s, "z") ELSE acc.tz]

\* datetime.String
dtString(acc) ==
    acc.date
    \o (IF acc.date # <<>> /\ acc.time # <<>> THEN <<WS>> ELSE <<>>)
    \o acc.time
    \o (IF acc.tz # <<>> THEN <<TZCanon(acc.tz[1])>> ELSE <<>>)

RECURSIVE dtParseAll(_, _)
dtParseAll(acc, values) ==
    IF values = <<>> THEN acc ELSE dtParseAll(dtParse(acc, Head(values)), Tail(values))

\* getDateTimeValue without the accumulator: the contributions are joined
\* as they are outside date mode
getDateTimeValueJoined(D, n, base) ==
    LET values == parseValueClassPattern(D, n, TRUE, base) IN
    IF Len(values) > 0 THEN Some(Concat(values)) ELSE None

\* getDateTimeValue: the value-class pattern in date mode
getDateTimeValue(D, n, base) ==
    LET values == parseValueClassPattern(D, n, TRUE, base) IN
    IF Len(values) > 0 THEN Some(dtString(dtParseAll(dtZero, values))) ELSE None

\* ------------------------------------------------------------------------
\* The datetime struct and its setters (datetime.go)
\* ------------------------------------------------------------------------
\* time.Time{}: 0001-01-01 00:00:00 UTC
ZeroTime == [date |-> <<1, 1, 1>>, clock |-> <<0, 0, 0>>, loc |-> "UTC"]

\* var d datetime
ZeroDatetime ==
    [t |-> ZeroTime, hasDate |-> FALSE, hasTime |-> FALSE, hasSeconds |-> FALSE, hasTZ |-> FALSE]

\* setDate that sets the date again when it is set
setDateAgain(dd, date) == [dd EXCEPT !.t.date = date, !.hasDate = TRUE]

\* d.setDate(year, month, day)
setDate(dd, date) ==
    IF dd.hasDate THEN dd ELSE [dd EXCEPT !.t.date = date, !.hasDate = TRUE]

\* d.setTime(hour, min, sec)
setTime(dd, clock) ==
    IF dd.hasTime THEN dd ELSE [dd EXCEPT !.t.clock = clock, !.hasTime = TRUE]

\* d.setTZ(loc)
setTZ(dd, loc) ==
    IF dd.hasTZ THEN dd ELSE [dd EXCEPT !.t.loc = loc, !.hasTZ = TRUE]

\* ------------------------------------------------------------------------
\* Microformat values
\* ------------------------------------------------------------------------
NoProps == [x \in {} |-> x]

\* Properties[name], nil when the key is absent
PropValues(props, name) == IF name \in DOMAIN props THEN props[name] ELSE <<>>

\* Properties[name] = append(Properties[name], v)
AppendProp(props, name, v) == (name :> Append(PropValues(props, name), v)) @@ props

StringValue(s) == [kind |-> "string", value |-> s]

\* the date of the first value of start that is a string with a date
RECURSIVE FirstDate(_)
FirstDate(values) ==
    IF values = <<>> THEN <<>>
    ELSE IF Head(values).kind = "string" /\ dtParse(dtZero, Head(values).value).date # <<>>
         THEN dtParse(dtZero, Head(values).value).date
         ELSE FirstDate(Tail(values))

\* implyEndDate that gives every end value with a time the date of the
\* first dated start value, whether it has a date or not
implyEndDateOverwrite(item) ==
    LET start == FirstDate(PropValues(item.Properties, "start"))
        ends  == PropValues(item.Properties, "end")
        fix(v) ==
            IF v.kind = "string" /\ dtParse(dtZero, v.value).time # <<>>
            THEN StringValue(dtString([dtParse(dtZero, v.value) EXCEPT !.date = start]))
            ELSE v
    IN  IF start = <<>> \/ ends = <<>> THEN item
        ELSE [item EXCEPT !.Properties = ("end" :> [i \in 1..Len(ends) |-> fix(ends[i])]) @@ @]

\* implyEndDate: every end value with a time and no date takes the date of
\* the first dated start value
implyEndDate(item) ==
    LET start == FirstDate(PropValues(item.Properties, "start"))
        ends  == PropValues(item.Properties, "end")
        fix(v) ==
            IF v.kind = "string" /\ dtParse(dtZero, v.value).time # <<>>
               /\ dtParse(dtZero, v.value).date = <<>>
            THEN StringValue(dtString([dtParse(dtZero, v.value) EXCEPT !.date = start]))
            ELSE v
    IN  IF start = <<>> \/ ends = <<>> THEN item
        ELSE [item EXCEPT !.Properties = ("end" :> [i \in 1..Len(ends) |-> fix(ends[i])]) @@ @]

\* getFirstPropValue that finds no value
getFirstPropValueNil(item, prop) == None

\* getFirstPropValue: a pointer to the first value of prop when it is a string
getFirstPropValue(item, prop) ==
    LET values == PropValues(item.Properties, prop) IN
    IF Len(values) > 0 /\ values[1].kind = "string" THEN Some(values[1].value) ELSE None

\* ------------------------------------------------------------------------
\* State
\* ------------------------------------------------------------------------
VARIABLES
    doc,        \* the DOM handed to ParseNode (p.root and all nodes below it)
    heap,       \* the Microformat objects allocated so far
    items,      \* p.curData.Items
    rels,       \* p.curData.Rels
    relURLs,    \* p.curData.RelURLs
    curItem,    \* p.curItem
    base,       \* p.base
    baseFound,  \* p.baseFound
    stack,      \* the active calls of walk; stack[1] is ParseNode itself
    panicked,   \* a nil dereference has ended the program
    datetime,   \* a datetime, the accumulator of getDateTimeValue
    calls       \* the calls of the setters of datetime so far

vars == <<doc, heap, items, rels, relURLs, curItem, base, baseFound, stack, panicked, datetime, calls>>

\* one call of walk: its node, its locals curItem, priorItem, rels and
\* classes, and the index of the child the loop over the children is at;
\* extra holds the subtrees an itemref attribute adds after the children.
\* Not locals of walk: arg, the node the call was made on, and hooked,
\* whether the call consulted the include hook
Frame(n, cur, prior, rs, classes) ==
    [node |-> n, cur |-> cur, prior |-> prior, rels |-> rs, classes |-> classes, next |-> 1,
     extra |-> <<>>, arg |-> n, hooked |-> FALSE]

\* the nodes the loop over the children of the call f goes through
Walked(D, f) == Children(D, f.node) \o f.extra

Top == stack[Len(stack)]

\* the node the innermost active call walks next, 0 when its loop is over
NextChild ==
    IF Top.next <= Len(Walked(doc, Top)) THEN Walked(doc, Top)[Top.next] ELSE 0

Done == Len(stack) = 1 /\ NextChild = 0

\* ------------------------------------------------------------------------
\* Documents
\* ------------------------------------------------------------------------
DocumentNode == [type |-> "document", tag |-> "", attr |-> NoAttr, data |-> <<>>]

El(tag, attr) == [type |-> "element", tag |-> tag, attr |-> attr, data |-> <<>>]

Text(s) == [type |-> "text", tag |-> "", attr |-> NoAttr, data |-> s]

RECURSIVE AncSelf(_, _)
AncSelf(par, i) == IF i = 0 THEN {} ELSE {i} \cup AncSelf(par, par[i])

\* the parent vectors of the trees of k nodes below the document node,
\* numbered in document order
Shapes(k) ==
    {par \in [1..(k + 1) -> 0..k] :
        /\ par[1] = 0
        /\ \A i \in 2..(k + 1) : par[i] \in AncSelf(par, i - 1)}

\* the documents of MaxNodes nodes drawn from palette; a text node is a leaf
Docs(palette) ==
    {[parent |-> par, node |-> <<DocumentNode>> \o els] :
        par \in Shapes(MaxNodes), els \in [1..MaxNodes -> palette]} 

WellFormed(D) == \A i \in 2..Len(D.node) : D.node[D.parent[i]].type # "text"

ExampleBase == [origin |-> <<"http://example.com">>, path |-> <<"/">>]

\* the state ParseNode has set up when it calls p.walk(doc)
InitWith(palette, bases) ==
    /\ doc \in {D \in Docs(palette) : WellFormed(D)}
    /\ base \in bases
    /\ heap = <<>>
    /\ items = <<>>
    /\ rels = [x \in {} |-> x]
    /\ relURLs = [x \in {} |-> x]
    /\ curItem = 0
    /\ baseFound = FALSE
    /\ stack = <<Frame(0, 0, 0, <<>>, <<>>)>>
    /\ panicked = FALSE
    /\ datetime = ZeroDatetime
    /\ calls = <<>>

\* ------------------------------------------------------------------------
\* walk, up to the loop over the children
\* ------------------------------------------------------------------------
NewMicroformat(n, rootclasses, backcompat, id, enclosing) ==
    [ID |-> id, Value |-> <<>>, HTML |-> <<>>, Type |-> rootclasses,
     Properties |-> NoProps, Shape |-> <<>>, Coords |-> <<>>, Children |-> <<>>,
     hasNestedMicroformats |-> FALSE, hasPProperties |-> FALSE,
     hasEProperties |-> FALSE, hasUProperties |-> FALSE,
     backcompat |-> backcompat,
     \* not fields of the Go struct: the node that opened the item, p.curItem
     \* at that moment, the node each implied property was read from, the
     \* prefixes of the properties appended to the item, and for each
     \* property name the nodes whose pass of the loop appended a value
     node |-> n, enclosing |-> enclosing, implied |-> NoProps, received |-> {},
     contrib |-> NoProps]

\* RootClasses with the backcompat root map consulted for every node: the
\* translated v1 names are added to the v2 names
RootClassesBoth(classes) ==
    LET v2 == SelectSeq(classes, LAMBDA c : c \in rootClassNames) IN
    [names |-> v2 \o backcompatRootClasses(classes),
     backcompat |-> Len(v2) = 0 /\ Len(backcompatRootClasses(classes)) > 0]

\* the root classes of a node and whether they are backcompat ones
RootClasses(classes) ==
    LET v2 == SelectSeq(classes, LAMBDA c : c \in rootClassNames) IN
    IF Len(v2) = 0
    THEN [names |-> backcompatRootClasses(classes),
          backcompat |-> Len(backcompatRootClasses(classes)) > 0]
    ELSE [names |-> v2, backcompat |-> FALSE]

\* the Type of the item walk opens: sort.Strings on the backcompat names too,
\* but for a sort that leaves the translated v1 names in class order
ItemTypeSortV2Only(root) ==
    IF root.backcompat THEN root.names ELSE SortStrings(root.names)

\* the Type of the item walk opens: rootclasses after sort.Strings
ItemType(root) == SortStrings(root.names)

RECURSIVE AddRelsNoSeen(_, _, _)
RECURSIVE AddRels(_, _, _)
\* AddRels without the test for a URL that is already stored
AddRelsNoSeen(R, relvals, urlVal) ==
    IF relvals = <<>> THEN R
    ELSE LET relval == Head(relvals)
             old == IF relval \in DOMAIN R THEN R[relval] ELSE <<>>
         IN  AddRelsNoSeen((relval :> Append(old, urlVal)) @@ R, Tail(relvals), urlVal)

\* the loop that stores urlVal under every rel value it is not yet stored under
AddRels(R, relvals, urlVal) ==
    IF relvals = <<>> THEN R
    ELSE LET relval == Head(relvals)
             old == IF relval \in DOMAIN R THEN R[relval] ELSE <<>>
             seen == \E i \in 1..Len(old) : old[i] = urlVal
         IN  AddRels(IF seen THEN R ELSE (relval :> Append(old, urlVal)) @@ R,
                     Tail(relvals), urlVal)

NewRelURL(D, n, rs) ==
    [Text |-> getTextContent(D, n, "nil", None), Rels |-> rs,
     Media |-> getAttr(D, n, "media"), HrefLang |-> getAttr(D, n, "hreflang"),
     Title |-> getAttr(D, n, "title"), Type |-> getAttr(D, n, "type")]

\* RecordRelURL storing the record of every sighting: the last one wins
RecordRelURLLastWins(RU, D, n, rs, urlVal) == (urlVal :> NewRelURL(D, n, rs)) @@ RU

\* RecordRelURL adding the rel values of a later sighting that the record
\* does not hold yet
RecordRelURLMerge(RU, D, n, rs, urlVal) ==
    IF urlVal \notin DOMAIN RU THEN (urlVal :> NewRelURL(D, n, rs)) @@ RU
    ELSE [RU EXCEPT ![urlVal].Rels =
             @ \o SelectSeq(rs, LAMBDA t : \A i \in 1..Len(RU[urlVal].Rels) : RU[urlVal].Rels[i] # t)]

\* the record of urlVal is created when RelURLs has none
RecordRelURL(RU, D, n, rs, urlVal) ==
    IF urlVal \notin DOMAIN RU THEN (urlVal :> NewRelURL(D, n, rs)) @@ RU ELSE RU

\* walk returns at once on a template element
WalkTemplate ==
    /\ ~panicked
    /\ UNCHANGED <<datetime, calls>>
    /\ NextChild # 0
    /\ isAtom(doc, NextChild, {"template"})
    /\ stack' = [stack EXCEPT ![Len(stack)].next = @ + 1]
    /\ UNCHANGED <<doc, heap, items, rels, relURLs, curItem, base, baseFound, panicked>>

\* the test of lines 982-984 without p.baseFound: every base element with a
\* parsable href is adopted
AdoptsBaseAgain(D, n, found) ==
    /\ isAtom(D, n, {"base"})
    /\ getAttr(D, n, "href") # <<>>
    /\ ParseOK(getAttr(D, n, "href"))

\* the test of lines 982-984: no base was adopted yet and node n is a base
\* element whose href is not empty and parses
AdoptsBase(D, n, found) ==
    /\ ~found
    /\ isAtom(D, n, {"base"})
    /\ getAttr(D, n, "href") # <<>>
    /\ ParseOK(getAttr(D, n, "href"))

\* ------------------------------------------------------------------------
\* The backcompat include pattern (backcompat.go)
\* ------------------------------------------------------------------------
\* backcompatIncludeRefs(node): the ids node refers to, and whether the
\* referenced node replaces it
backcompatIncludeRefs(D, n) ==
    LET ref == IF isAtom(D, n, {"a"}) THEN getAttr(D, n, "href")
               ELSE IF isAtom(D, n, {"object"}) THEN getAttr(D, n, "data")
               ELSE <<>>
        itemref == Fields(getAttr(D, n, "itemref"))
    IN  IF "include" \in Range(getClasses(D, n)) /\ Len(ref) > 1 /\ Head(ref) = "#"
        THEN [refs |-> <<Tail(ref)>>, replace |-> TRUE]
        ELSE [refs |-> [i \in 1..Len(itemref) |-> <<itemref[i]>>], replace |-> FALSE]

\* the first node of the document with the given id, 0 when there is none
findNodeByID(D, id) ==
    LET S == {m \in NodeIds(D) : hasAttr(D, m, "id") /\ getAttr(D, m, "id") = id}
    IN  IF S = {} THEN 0 ELSE CHOOSE m \in S : \A k \in S : m <= k

\* isAncestorNode(child, parent): parent is child or an ancestor of child
isAncestorNode(D, child, parent) ==
    child # 0 /\ parent # 0 /\ parent \in AncSelf(D.parent, child)

\* the referenced nodes that are in the document and are neither n nor an
\* ancestor of n
IncludeTargets(D, n, refs) ==
    SelectSeq([i \in 1..Len(refs) |-> findNodeByID(D, refs[i])],
              LAMBDA t : t # 0 /\ ~isAncestorNode(D, n, t))

\* backcompatIncludeNode(node, refs, replace): the node walk goes on with
\* and the subtrees it walks after the children of that node
Included(n, targets, replace) ==
    IF replace
    THEN [node |-> IF targets # <<>> THEN targets[1] ELSE n, extra |-> <<>>]
    ELSE [node |-> n, extra |-> targets]

backcompatIncludeNode(D, n, refs, replace) == Included(n, IncludeTargets(D, n, refs), replace)

IncludeNodeOf(D, n, r) ==
    IF Len(r.refs) # 0 THEN backcompatIncludeNode(D, n, r.refs, r.replace)
    ELSE [node |-> n, extra |-> <<>>]

\* lines 974-980: the hook is consulted when the current item is a
\* backcompat one
IncludeHook(D, n, hooked) ==
    IF hooked THEN IncludeNodeOf(D, n, backcompatIncludeRefs(D, n))
    ELSE [node |-> n, extra |-> <<>>]

\* the call walk(n) from its entry to the loop over the children of n
WalkEnter ==
    /\ ~panicked
    /\ UNCHANGED <<datetime, calls>>
    /\ Len(stack) <= MaxDepth
    /\ NextChild # 0
    /\ ~isAtom(doc, NextChild, {"template"})
    /\ LET n == NextChild
           classes == getClasses(doc, n)
           root == RootClasses(classes)
           opens == Len(root.names) > 0
           new == Len(heap) + 1
           item == NewMicroformat(n, ItemType(root), root.backcompat,
                                  IF root.backcompat THEN <<>> ELSE getAttr(doc, n, "id"),
                                  curItem)
           heap1 == IF ~opens THEN heap
                    ELSE IF curItem = 0 THEN Append(heap, item)
                    ELSE Append([heap EXCEPT ![curItem].hasNestedMicroformats = TRUE], item)
           items1 == IF opens /\ curItem = 0 THEN Append(items, new) ELSE items
           cur == IF opens THEN new ELSE 0
           prior == IF opens THEN curItem ELSE 0
           curItem1 == IF opens THEN new ELSE curItem
           hooked == IF opens THEN root.backcompat
                     ELSE curItem # 0 /\ heap[curItem].backcompat
           inc == IncludeHook(doc, n, hooked)
           nd == inc.node
           href == getAttr(doc, nd, "href")
           isBase == AdoptsBase(doc, nd, baseFound)
           nilDeref == isBase /\ base = None /\ ParseURL(href).origin = <<>>
           base1 == IF isBase /\ ~nilDeref THEN Some(ResolveReference(base, ParseURL(href)))
                    ELSE base
           rel == getAttr(doc, nd, "rel")
           isRel == isAtom(doc, nd, {"a", "link"}) /\ rel # <<>>
           urlVal == expandURL(href, base1)
           rs == IF isRel THEN Fields(rel) ELSE <<>>
       IN  /\ heap' = heap1
           /\ items' = items1
           /\ curItem' = curItem1
           /\ IF nilDeref
              THEN /\ panicked' = TRUE
                   /\ UNCHANGED <<base, baseFound, rels, relURLs, stack>>
              ELSE /\ panicked' = FALSE
                   /\ base' = base1
                   /\ baseFound' = (baseFound \/ isBase)
                   /\ rels' = IF isRel THEN AddRels(rels, rs, urlVal) ELSE rels
                   /\ relURLs' = IF isRel THEN RecordRelURL(relURLs, doc, nd, rs, urlVal)
                                 ELSE relURLs
                   /\ stack' = Append(stack, [Frame(nd, cur, prior, rs, classes)
                                                EXCEPT !.extra = inc.extra, !.arg = n,
                                                       !.hooked = hooked])
           /\ UNCHANGED doc


\* ------------------------------------------------------------------------
\* walk, after the loop over the children
\* ------------------------------------------------------------------------
MapValue(data) == [kind |-> "map", data |-> data]

\* ImplyName without the test of hasPProperties
ImplyNameDespiteP(it, name) ==
    IF "name" \notin DOMAIN it.Properties
       /\ ~it.hasNestedMicroformats /\ ~it.hasEProperties
       /\ name.name # <<>>
    THEN [it EXCEPT !.Properties = AppendProp(@, "name", StringValue(name.name)),
                    !.implied = ("name" :> name.from) @@ @]
    ELSE it

\* the implied name of the item it: name is what getImpliedName returns for
\* its node
ImplyName(it, name) ==
    IF "name" \notin DOMAIN it.Properties
       /\ ~it.hasNestedMicroformats /\ ~it.hasPProperties /\ ~it.hasEProperties
       /\ name.name # <<>>
    THEN [it EXCEPT !.Properties = AppendProp(@, "name", StringValue(name.name)),
                    !.implied = ("name" :> name.from) @@ @]
    ELSE it

\* the implied photo of the item it: photo is what getImpliedPhoto returns
ImplyPhoto(it, photo) ==
    IF "photo" \notin DOMAIN it.Properties /\ ~it.hasNestedMicroformats /\ ~it.hasUProperties
    THEN IF photo.alt # <<>>
         THEN [it EXCEPT !.Properties =
                            AppendProp(@, "photo", MapValue([alt |-> photo.alt, value |-> photo.src])),
                         !.implied = ("photo" :> photo.from) @@ @]
         ELSE IF photo.src # <<>>
         THEN [it EXCEPT !.Properties = AppendProp(@, "photo", StringValue(photo.src)),
                         !.implied = ("photo" :> photo.from) @@ @]
         ELSE it
    ELSE it

\* ImplyURL without the test of hasUProperties
ImplyURLDespiteU(it, url) ==
    IF "url" \notin DOMAIN it.Properties /\ ~it.hasNestedMicroformats /\ url.url # <<>>
    THEN [it EXCEPT !.Properties = AppendProp(@, "url", StringValue(url.url)),
                    !.implied = ("url" :> url.from) @@ @]
    ELSE it

\* the implied url of the item it: url is what getImpliedURL returns
ImplyURL(it, url) ==
    IF "url" \notin DOMAIN it.Properties /\ ~it.hasNestedMicroformats /\ ~it.hasUProperties
       /\ url.url # <<>>
    THEN [it EXCEPT !.Properties = AppendProp(@, "url", StringValue(url.url)),
                    !.implied = ("url" :> url.from) @@ @]
    ELSE it

\* the implied properties of the item it opened at node n, in the order
\* name, photo, url; implies is the test of line 1035
ImplyAll(D, it, n, bs, implies) ==
    IF implies
    THEN ImplyURL(ImplyPhoto(ImplyName(it, getImpliedName(D, n)), getImpliedPhoto(D, n, bs)),
                  getImpliedURL(D, n, bs))
    ELSE it

\* Finalise without the test of line 1035: the implied properties are
\* processed for every item
FinaliseImplyAlways(D, H, cur, n, bs, pcur) ==
    ImplyAll(D, implyEndDate(H[cur]), n, bs, TRUE)

\* the block "if curItem != nil" up to the pop: pcur is p.curItem there
Finalise(D, H, cur, n, bs, pcur) ==
    ImplyAll(D, implyEndDate(H[cur]), n, bs, pcur = 0 \/ ~H[pcur].backcompat)

\* A *string of the property ladders is nil (<<>>) or <<v>> with v either a
\* pointer into an attribute of the DOM or a string of its own
AttrValue(D, n, name) ==
    IF hasAttr(D, n, name) THEN Some([isptr |-> TRUE, at |-> <<n, name>>]) ELSE None

OwnValue(s) == Some([isptr |-> FALSE, s |-> s])

OfOpt(o) == IF o = None THEN None ELSE OwnValue(o[1])

ReadValue(D, v) == IF v[1].isptr THEN D.node[v[1].at[1]].attr[v[1].at[2]] ELSE v[1].s

\* *value = s
WriteValue(D, v, s) ==
    IF v[1].isptr
    THEN [doc |-> [D EXCEPT !.node[v[1].at[1]].attr[v[1].at[2]] = s], value |-> v]
    ELSE [doc |-> D, value |-> OwnValue(s)]

\* the attributes expandAttrURLs rewrites on an element
URLAttrs(D, n) ==
    (IF isAtom(D, n, {"form"}) THEN {"action"} ELSE {})
    \cup (IF isAtom(D, n, {"blockquote", "del", "ins", "q"}) THEN {"cite"} ELSE {})
    \cup (IF isAtom(D, n, {"object"}) THEN {"data"} ELSE {})
    \cup (IF isAtom(D, n, {"button", "input"}) THEN {"formaction"} ELSE {})
    \cup (IF isAtom(D, n, {"a", "area", "base", "link"}) THEN {"href"} ELSE {})
    \cup (IF isAtom(D, n, {"a", "area"}) THEN {"ping"} ELSE {})
    \cup (IF isAtom(D, n, {"audio", "embed", "iframe", "img", "input", "script", "source",
                           "track", "video"}) THEN {"src"} ELSE {})
    \cup (IF isAtom(D, n, {"video"}) THEN {"poster"} ELSE {})

RECURSIVE expandAttrURLs(_, _, _)
RECURSIVE ExpandAll(_, _, _)
\* expandAttrURLs on every node of kids, in order
ExpandAll(D, kids, bs) ==
    IF kids = <<>> THEN D ELSE ExpandAll(expandAttrURLs(D, Head(kids), bs), Tail(kids), bs)

\* expandAttrURLs: rewrites the URL attributes of node and of its descendants
expandAttrURLs(D, n, bs) ==
    LET D1 == [D EXCEPT !.node[n].attr =
                  [a \in DOMAIN @ |-> IF a \in URLAttrs(D, n) THEN expandURL(@[a], bs) ELSE @[a]]]
    IN  ExpandAll(D1, Children(D, n), bs)

\* the order in which html.Render writes the attributes of the vocabulary
AttrOrder ==
    <<"class", "id", "rel", "href", "src", "data", "alt", "title", "value", "datetime",
      "media", "hreflang", "type", "poster", "itemref">>

VoidElements == {"area", "base", "br", "col", "embed", "hr", "img", "input", "link", "meta",
                 "source", "track", "wbr"}

RenderAttrs(D, n) ==
    Concat([i \in 1..Len(AttrOrder) |->
        IF AttrOrder[i] \in DOMAIN D.node[n].attr
        THEN <<WS, AttrOrder[i], "=\"">> \o D.node[n].attr[AttrOrder[i]] \o <<"\"">>
        ELSE <<>>])

RECURSIVE Render(_, _)
\* html.Render
Render(D, n) ==
    IF D.node[n].type = "text" THEN D.node[n].data
    ELSE LET kids == Children(D, n) IN
         IF D.node[n].tag \in VoidElements
         THEN <<"<", D.node[n].tag>> \o RenderAttrs(D, n) \o <<"/>">>
         ELSE <<"<", D.node[n].tag>> \o RenderAttrs(D, n) \o <<">">>
              \o Concat([i \in 1..Len(kids) |-> Render(D, kids[i])])
              \o <<"</", D.node[n].tag, ">">>

\* strings.ReplaceAll(htmlbody, "/>", ">")
ReplaceSlash(s) == [i \in 1..Len(s) |-> IF s[i] = "/>" THEN ">" ELSE s[i]]

\* case "p" of the switch: the value
PLadder(D, n, bs) ==
    FirstOf(<<OfOpt(getValueClassPattern(D, n, bs)),
              Guarded(isAtom(D, n, {"abbr", "link"}), AttrValue(D, n, "title")),
              Guarded(isAtom(D, n, {"data", "input"}), AttrValue(D, n, "value")),
              Guarded(isAtom(D, n, {"img", "area"}), AttrValue(D, n, "alt")),
              OwnValue(TrimSpace(getTextContent(D, n, "altsrc", bs)))>>)

\* ULadder with the value-class pattern tried first, as in case "p"
ULadderValueClassFirst(D, n, bs) ==
    FirstOf(<<OfOpt(getValueClassPattern(D, n, bs)),
              Guarded(isAtom(D, n, {"a", "area", "link"}), AttrValue(D, n, "href")),
              Guarded(isAtom(D, n, {"img"}), AttrValue(D, n, "src")),
              Guarded(isAtom(D, n, {"audio", "video", "source"}), AttrValue(D, n, "src")),
              Guarded(isAtom(D, n, {"object"}), AttrValue(D, n, "data")),
              Guarded(isAtom(D, n, {"video"}), AttrValue(D, n, "poster")),
              Guarded(isAtom(D, n, {"abbr"}), AttrValue(D, n, "title")),
              Guarded(isAtom(D, n, {"data", "input"}), AttrValue(D, n, "value")),
              OwnValue(TrimSpace(getTextContent(D, n, "nil", bs)))>>)

\* case "u" of the switch: the value before it is expanded
ULadder(D, n, bs) ==
    FirstOf(<<Guarded(isAtom(D, n, {"a", "area", "link"}), AttrValue(D, n, "href")),
              Guarded(isAtom(D, n, {"img"}), AttrValue(D, n, "src")),
              Guarded(isAtom(D, n, {"audio", "video", "source"}), AttrValue(D, n, "src")),
              Guarded(isAtom(D, n, {"object"}), AttrValue(D, n, "data")),
              Guarded(isAtom(D, n, {"video"}), AttrValue(D, n, "poster")),
              OfOpt(getValueClassPattern(D, n, bs)),
              Guarded(isAtom(D, n, {"abbr"}), AttrValue(D, n, "title")),
              Guarded(isAtom(D, n, {"data", "input"}), AttrValue(D, n, "value")),
              OwnValue(TrimSpace(getTextContent(D, n, "nil", bs)))>>)

\* case "dt" of the switch: the value
DTLadder(D, n, bs) ==
    FirstOf(<<OfOpt(getDateTimeValue(D, n, bs)),
              Guarded(isAtom(D, n, {"time", "ins", "del"}), AttrValue(D, n, "datetime")),
              Guarded(isAtom(D, n, {"abbr"}), AttrValue(D, n, "title")),
              Guarded(isAtom(D, n, {"data", "input"}), AttrValue(D, n, "value")),
              OwnValue(TrimSpace(getTextContent(D, n, "nil", bs)))>>)

\* case "p" of the switch.  The result of a case is
\* [doc, value, embed, propData, heap].
SwitchP(D, H, n, cur, pcur, bs) ==
    [doc |-> D,
     heap |-> IF pcur # 0 THEN [H EXCEPT ![pcur].hasPProperties = TRUE] ELSE H,
     value |-> ReadValue(D, PLadder(D, n, bs)),
     embed |-> IF cur # 0 /\ pcur # 0 THEN getFirstPropValue(H[cur], "name") ELSE None,
     propData |-> NoProps]

\* *value = strings.TrimSpace(expandURL(*value, p.base))
ExpandValue(D, v, bs) == WriteValue(D, v, TrimSpace(expandURL(ReadValue(D, v), bs)))

\* *value = backcompatURLCategory(*value), for a category of a backcompat item
CategoryValue(w, isCat) ==
    IF isCat THEN WriteValue(w.doc, w.value, backcompatURLCategory(ReadValue(w.doc, w.value)))
    ELSE w

\* the result of case "u": w is the value after the two writes, D the
\* document before them
UResult(w, D, H, n, cur, pcur) ==
    [doc |-> w.doc,
     heap |-> IF pcur # 0 THEN [H EXCEPT ![pcur].hasUProperties = TRUE] ELSE H,
     value |-> ReadValue(w.doc, w.value),
     embed |-> IF cur # 0 /\ pcur # 0 THEN getFirstPropValue(H[cur], "url") ELSE None,
     propData |-> IF ~isAtom(D, n, {"a", "area", "link"}) /\ isAtom(D, n, {"img"})
                     /\ pcur # 0 /\ ~H[pcur].backcompat /\ imageAltValue(D, n) # <<>>
                  THEN [alt |-> imageAltValue(D, n)] ELSE NoProps]

\* case "u" of the switch
SwitchU(D, H, name, n, cur, pcur, bs) ==
    UResult(CategoryValue(ExpandValue(D, ULadder(D, n, bs), bs),
                          pcur # 0 /\ H[pcur].backcompat /\ name = "category"),
            D, H, n, cur, pcur)

\* htmlbody: the children of n rendered, trimmed, "/>" replaced
RenderChildren(D, n) ==
    ReplaceSlash(TrimSpace(Concat([i \in 1..Len(Children(D, n)) |-> Render(D, Children(D, n)[i])])))

\* the result of case "e": D1 is the document after expandAttrURLs on the
\* children of n, value the text read before it
EResult(D1, H, n, pcur, value) ==
    [doc |-> D1,
     heap |-> IF pcur # 0 THEN [H EXCEPT ![pcur].hasEProperties = TRUE] ELSE H,
     value |-> value,
     embed |-> None,
     propData |-> [html |-> RenderChildren(D1, n)]]

\* case "e" of the switch
SwitchE(D, H, n, pcur, bs) ==
    EResult(ExpandAll(D, Children(D, n), bs), H, n, pcur,
            TrimSpace(getTextContent(D, n, "altsrc", bs)))

\* case "dt" of the switch
SwitchDT(D, H, n, bs) ==
    [doc |-> D, heap |-> H,
     value |-> ReadValue(D, DTLadder(D, n, bs)),
     embed |-> None,
     propData |-> NoProps]

\* One pass of the loop over propertyclasses for the property prop =
\* <<prefix, name>> of node n: cur is the item n opened (0 if none), pcur is
\* p.curItem.  S = [heap, doc] is the state the pass starts from.
SwitchPrefix(S, prop, n, cur, pcur, bs) ==
    CASE prop[1] = "p"  -> SwitchP(S.doc, S.heap, n, cur, pcur, bs)
      [] prop[1] = "u"  -> SwitchU(S.doc, S.heap, prop[2], n, cur, pcur, bs)
      [] prop[1] = "e"  -> SwitchE(S.doc, S.heap, n, pcur, bs)
      [] prop[1] = "dt" -> SwitchDT(S.doc, S.heap, n, bs)

\* the copy of the opened item that is stored as a property value: it shares
\* the Properties map of heap[cur] (ref) and has no Children
NestedValue(H, cur, value, html) ==
    [kind |-> "mf", ref |-> cur, ID |-> H[cur].ID, Type |-> H[cur].Type,
     Coords |-> H[cur].Coords, Shape |-> H[cur].Shape, Value |-> value, HTML |-> html]

\* PropertyValue without the case of a node that opened an item: the value
\* is stored as for any other node
PropertyValueNoNested(r, cur, pcur) ==
    IF DOMAIN r.propData # {}
    THEN MapValue(("value" :> r.value) @@ r.propData)
    ELSE StringValue(r.value)

\* the value appended to Properties[name]: r is the result of the switch
PropertyValue(r, cur, pcur) ==
    IF cur # 0 /\ pcur # 0
    THEN NestedValue(r.heap, cur, IF r.embed = None THEN r.value ELSE r.embed[1],
                     IF "html" \in DOMAIN r.propData THEN r.propData["html"] ELSE <<>>)
    ELSE IF DOMAIN r.propData # {}
    THEN MapValue(("value" :> r.value) @@ r.propData)
    ELSE StringValue(r.value)

\* the append that ends a pass of the loop
EmitValue(r, prop, n, cur, pcur) ==
    [doc |-> r.doc,
     heap |-> IF pcur # 0
              THEN [r.heap EXCEPT ![pcur].Properties = AppendProp(@, prop[2], PropertyValue(r, cur, pcur)),
                                  ![pcur].received = @ \cup {prop[1]},
                                  ![pcur].contrib = AppendProp(@, prop[2], n)]
              ELSE r.heap]

EmitOne(S, prop, n, cur, pcur, bs) ==
    EmitValue(SwitchPrefix(S, prop, n, cur, pcur, bs), prop, n, cur, pcur)

RECURSIVE EmitProps(_, _, _, _, _, _)
EmitProps(S, props, n, cur, pcur, bs) ==
    IF props = <<>> THEN S
    ELSE EmitProps(EmitOne(S, Head(props), n, cur, pcur, bs), Tail(props), n, cur, pcur, bs)

\* PropertyClasses with the v2 property classes read under a backcompat
\* item too
PropertyClassesBoth(H, classes, rs, pcur) ==
    LET hits == SelectSeq(classes, LAMBDA c : c \in DOMAIN propertyClassNames)
        v2 == [i \in 1..Len(hits) |-> propertyClassNames[hits[i]]]
    IN  IF pcur # 0 /\ H[pcur].backcompat
        THEN {q \o v2 : q \in backcompatPropertyClasses(classes, rs, H[pcur].Type)}
        ELSE {v2}

\* the slices propertyclasses can be at node n under the enclosing item pcur
PropertyClasses(H, classes, rs, pcur) ==
    IF pcur # 0 /\ H[pcur].backcompat
    THEN backcompatPropertyClasses(classes, rs, H[pcur].Type)
    ELSE LET hits == SelectSeq(classes, LAMBDA c : c \in DOMAIN propertyClassNames) IN
         {[i \in 1..Len(hits) |-> propertyClassNames[hits[i]]]}

\* the heap after the block "if curItem != nil" of the call f
AfterChildren(f) ==
    IF f.cur = 0 THEN heap
    ELSE [heap EXCEPT ![f.cur] = Finalise(doc, heap, f.cur, f.node, base, curItem)]

\* p.curItem after that block without line 1066: the item the call opened
\* stays the current item
CurAfterChildrenKept(f) == curItem

\* p.curItem after that block
CurAfterChildren(f) == IF f.cur = 0 THEN curItem ELSE f.prior

\* the loop over propertyclasses, or the append to Children when there is
\* none: S0 = [heap, doc] is the state before it
Emit(S0, f, pcur, props) ==
    IF Len(props) > 0 THEN EmitProps(S0, props, f.node, f.cur, pcur, base)
    ELSE IF f.cur # 0 /\ pcur # 0
    THEN [S0 EXCEPT !.heap[pcur].Children = Append(@, f.cur),
                    !.heap[pcur].hasNestedMicroformats = TRUE]
    ELSE S0

\* the return of the call: S = [heap, doc] is what it leaves
Return(S, pcur) ==
    /\ heap' = S.heap
    /\ doc' = S.doc
    /\ curItem' = pcur
    /\ stack' = [SubSeq(stack, 1, Len(stack) - 1) EXCEPT ![Len(stack) - 1].next = @ + 1]

\* the rest of the call f once its item is finalised: H is the heap then
Leave(H, f, pcur) ==
    \E props \in PropertyClasses(H, f.classes, f.rels, pcur) :
        Return(Emit([heap |-> H, doc |-> doc], f, pcur, props), pcur)

\* the call walk(n), from the end of the loop over the children to its return
WalkExit ==
    /\ ~panicked
    /\ UNCHANGED <<datetime, calls>>
    /\ Len(stack) > 1
    /\ NextChild = 0
    /\ Leave(AfterChildren(Top), Top, CurAfterChildren(Top))
    /\ UNCHANGED <<items, rels, relURLs, base, baseFound, panicked>>

Next == WalkTemplate \/ WalkEnter \/ WalkExit


\* ------------------------------------------------------------------------
\* Specifications: the walk of every document of MaxNodes nodes over a
\* palette of elements
\* ------------------------------------------------------------------------
Class(tokens) == [class |-> tokens]

\* roots, nested items and children
ItemPalette ==
    {Text(<<"Hi">>),
     El("template", Class(<<"h-card">>)),
     El("div", Class(<<"h-card">>)),
     El("div", [class |-> <<"h-entry", WS, "h-card">>, id |-> <<"i1">>]),
     El("div", Class(<<"p-author", WS, "h-card">>)),
     El("span", Class(<<"p-name">>)),
     El("div", Class(<<"vcard", WS, "adr">>)),
     El("div", Class(<<"agent", WS, "vcard">>))}

\* <a> and <link> elements with rel attributes
RelPalette ==
    {El("template", NoAttr),
     El("base", [href |-> <<"http://other.example", "/">>]),
     El("a", [rel |-> <<"me">>, href |-> <<"/", "x">>, title |-> <<"t1">>]),
     El("link", [rel |-> <<"me", WS, "author">>, href |-> <<"/", "x">>]),
     El("a", [rel |-> <<"author", WS, "me", WS, "me">>,
              href |-> <<"http://example.com", "/", "x">>, title |-> <<"t2">>]),
     El("a", [rel |-> <<WS>>, href |-> <<"/", "z">>]),
     El("a", [rel |-> <<>>, href |-> <<"/", "w">>])}

\* implied properties and what gates them
ImpliedPalette ==
    {Text(<<"Hi">>),
     El("template", NoAttr),
     El("div", Class(<<"h-card">>)),
     El("span", Class(<<"p-note">>)),
     El("div", Class(<<"e-content">>)),
     El("a", [class |-> <<"u-photo">>, href |-> <<"/", "u">>]),
     El("a", [href |-> <<"/", "p">>]),
     El("img", [src |-> <<"/", "i.png">>, alt |-> <<"A">>]),
     El("img", [class |-> <<"u-url">>, src |-> <<"/", "q.png">>])}

\* v1 and v2 vocabularies side by side
BackcompatPalette ==
    {Text(<<"Hi">>),
     El("template", NoAttr),
     El("a", [class |-> <<"vcard">>, href |-> <<"/", "p">>]),
     El("div", Class(<<"vcard">>)),
     El("div", Class(<<"h-card", WS, "vcard">>)),
     El("span", Class(<<"fn", WS, "p-note">>)),
     El("a", [class |-> <<"url">>, href |-> <<"/", "u">>])}

Init == InitWith(ItemPalette, {Some(ExampleBase)})

Spec == Init /\ [][Next]_vars

InitRel == InitWith(RelPalette, {Some(ExampleBase)})

SpecRel == InitRel /\ [][Next]_vars

InitBackcompat == InitWith(BackcompatPalette, {Some(ExampleBase)})

SpecBackcompat == InitBackcompat /\ [][Next]_vars

InitImplied == InitWith(ImpliedPalette, {Some(ExampleBase)})

SpecImplied == InitImplied /\ [][Next]_vars


\* ------------------------------------------------------------------------
\* Properties
\* ------------------------------------------------------------------------
OnStack(c) == \E i \in 1..Len(stack) : stack[i].cur = c

\* the call of walk that opened item c has returned
Closed(c) == ~OnStack(c) /\ curItem # c

CountIn(seq, x) == Cardinality({i \in 1..Len(seq) : seq[i] = x})

AllValues(it) == UNION {Range(it.Properties[k]) : k \in DOMAIN it.Properties}

IsNestedOf(v, c) == v.kind = "mf" /\ v.ref = c

\* the local rels of walk at node n
NodeRels(D, n) ==
    IF isAtom(D, n, {"a", "link"}) /\ getAttr(D, n, "rel") # <<>>
    THEN Fields(getAttr(D, n, "rel")) ELSE <<>>

\* the property classes the node of item c yields for the item m around it
YieldedClasses(c, m) ==
    PropertyClasses(heap, getClasses(doc, heap[c].node), NodeRels(doc, heap[c].node), m)

Yields(c, m) == \E q \in YieldedClasses(c, m) : Len(q) > 0

EmittedAsNested(c, m) ==
    \A q \in YieldedClasses(c, m) : \A i \in 1..Len(q) :
        \E v \in Range(PropValues(heap[m].Properties, q[i][2])) : IsNestedOf(v, c)

InNoPropertyList(c) ==
    \A k \in 1..Len(heap) : \A v \in AllValues(heap[k]) : ~IsNestedOf(v, c)

\* C1: an item opened under an enclosing item is, once its node is left,
\* either a nested value of every property its node yields (and no child),
\* or exactly once a child (and in no property list); it is in Data.items
\* exactly when nothing enclosed it; it is never both a property value and a
\* child of one item.
C1_NestedOrChild ==
    \A c \in 1..Len(heap) :
        LET m == heap[c].enclosing IN
        /\ CountIn(items, c) = (IF m = 0 THEN 1 ELSE 0)
        /\ (m # 0 /\ Closed(c)) =>
              /\ Yields(c, m) => (EmittedAsNested(c, m) /\ CountIn(heap[m].Children, c) = 0)
              /\ ~Yields(c, m) => (CountIn(heap[m].Children, c) = 1 /\ InNoPropertyList(c))
        /\ \A k \in 1..Len(heap) :
              ~(CountIn(heap[k].Children, c) > 0 /\ \E v \in AllValues(heap[k]) : IsNestedOf(v, c))

C1_Witness ==
    /\ Done
    /\ \E c \in 1..Len(heap) :
          heap[c].enclosing # 0 /\ Yields(c, heap[c].enclosing)
          /\ \E v \in AllValues(heap[heap[c].enclosing]) : IsNestedOf(v, c)
    /\ \E c \in 1..Len(heap) :
          heap[c].enclosing # 0 /\ ~Yields(c, heap[c].enclosing)
          /\ CountIn(heap[heap[c].enclosing].Children, c) = 1

\* C2: no list of Data.rels holds a URL twice.
C2_NoDuplicateRel ==
    \A t \in DOMAIN rels : \A i, j \in 1..Len(rels[t]) : rels[t][i] = rels[t][j] => i = j

NoBaseOrTemplate == \A n \in NodeIds(doc) : ~isAtom(doc, n, {"base", "template"})

\* the places (node, position in its rel attribute) where token t is met
\* with a link that resolves to u
Sightings(t, u) ==
    {nk \in NodeIds(doc) \X (1..5) :
        /\ nk[2] <= Len(NodeRels(doc, nk[1]))
        /\ NodeRels(doc, nk[1])[nk[2]] = t
        /\ expandURL(getAttr(doc, nk[1], "href"), base) = u}

C2_Witness ==
    /\ Done
    /\ NoBaseOrTemplate
    /\ \E t \in DOMAIN rels : \E u \in Range(rels[t]) :
          /\ \E nk \in Sightings(t, u) : \E ml \in Sightings(t, u) : nk[1] = ml[1] /\ nk[2] # ml[2]
          /\ \E nk \in Sightings(t, u) : \E ml \in Sightings(t, u) : nk[1] # ml[1]

\* C3: a record of Data.rel_urls, once made, is never changed or removed.
C3_FirstSeenWins ==
    [][\A u \in DOMAIN relURLs : u \in DOMAIN relURLs' /\ relURLs'[u] = relURLs[u]]_vars

C3_Witness ==
    /\ Done
    /\ NoBaseOrTemplate
    /\ \E n1 \in NodeIds(doc) : \E n2 \in NodeIds(doc) :
          /\ n1 < n2
          /\ NodeRels(doc, n1) # <<>> /\ NodeRels(doc, n2) # <<>>
          /\ expandURL(getAttr(doc, n1, "href"), base) = expandURL(getAttr(doc, n2, "href"), base)
          /\ getAttr(doc, n1, "title") # getAttr(doc, n2, "title")
          /\ relURLs[expandURL(getAttr(doc, n1, "href"), base)].Title = getAttr(doc, n1, "title")

\* C4: the keys of Data.rel_urls are exactly the URLs of the lists of Data.rels.
C4_RelsAndRelURLsAgree ==
    DOMAIN relURLs = UNION {Range(rels[t]) : t \in DOMAIN rels}

\* the step about to be taken is walk entering an <a> or <link> whose rel
\* attribute is not empty and whose link resolves to a URL that has a record
KnownSighting ==
    /\ ~panicked
    /\ NextChild # 0
    /\ NodeRels(doc, NextChild) # <<>>
    /\ expandURL(getAttr(doc, NextChild, "href"), base) \in DOMAIN relURLs

SightedURL == expandURL(getAttr(doc, NextChild, "href"), base)

\* C5 as stated: a later sighting adds its new rel tokens to the record.
C5_LaterTokensAdded ==
    [][KnownSighting =>
          \A t \in Range(NodeRels(doc, NextChild)) : t \in Range(relURLs'[SightedURL].Rels)]_vars

\* C5: the record made at the first sighting of a URL keeps its rels list at
\* every later sighting, whose tokens are stored under Data.rels only.
C5_LaterTokensNotAdded ==
    [][KnownSighting =>
          /\ relURLs'[SightedURL].Rels = relURLs[SightedURL].Rels
          /\ \A t \in Range(NodeRels(doc, NextChild)) :
                t \in DOMAIN rels' /\ SightedURL \in Range(rels'[t])]_vars

C5_Witness ==
    /\ Done
    /\ \E u \in DOMAIN relURLs : \E t \in DOMAIN rels :
          u \in Range(rels[t]) /\ relURLs[u].Rels # <<>> /\ t \notin Range(relURLs[u].Rels)

Sorted(s) == \A i \in 1..(Len(s) - 1) : StrLessEq(s[i], s[i + 1])

V2RootClasses(c) == SelectSeq(getClasses(doc, heap[c].node), LAMBDA x : x \in rootClassNames)

NestedValues == {v \in UNION {AllValues(heap[k]) : k \in 1..Len(heap)} : v.kind = "mf"}

\* C6: every item, be it in Data.items, a child or a nested property value,
\* has a type list that is not empty, and the type list of an item opened
\* from v2 root classes is in ascending order whatever the order of the
\* class names in the class attribute.
C6_TypeNonEmptySorted ==
    /\ \A c \in 1..Len(heap) :
          /\ Len(heap[c].Type) > 0
          /\ ~heap[c].backcompat => Sorted(heap[c].Type)
    /\ \A v \in NestedValues :
          /\ Len(v.Type) > 0
          /\ ~heap[v.ref].backcompat => Sorted(v.Type)

C6_Witness ==
    /\ Done
    /\ \E c \in 1..Len(heap) :
          /\ ~heap[c].backcompat
          /\ V2RootClasses(c) = <<"h-entry", "h-card">>
          /\ heap[c].Type = <<"h-card", "h-entry">>
    /\ \E v \in NestedValues : ~heap[v.ref].backcompat

SamePieces(s, t) == \A x \in Range(s) \cup Range(t) : CountIn(s, x) = CountIn(t, x)

InTemplate(n) == \E a \in AncSelf(doc.parent, n) : isAtom(doc, a, {"template"})

\* C8 as it is stated: no call of walk is made on a template element or below
\* one, no item is opened there, no implied property value is read from a
\* node there, and the step of walk over a template element leaves the
\* current item, the base URL and the data as they were.
C8_TemplateNotWalked ==
    /\ [](/\ \A i \in 2..Len(stack) : ~InTemplate(stack[i].node)
          /\ \A c \in 1..Len(heap) :
                /\ ~InTemplate(heap[c].node)
                /\ \A k \in DOMAIN heap[c].implied :
                      heap[c].implied[k] # 0 => ~InTemplate(heap[c].implied[k]))
    /\ [][(NextChild # 0 /\ isAtom(doc, NextChild, {"template"}))
             => UNCHANGED <<curItem, base, baseFound, heap, items, rels, relURLs, doc>>]_vars

HasNested(c) ==
    \/ \E v \in AllValues(heap[c]) : v.kind = "mf"
    \/ Len(heap[c].Children) > 0
    \/ \E k \in 1..Len(heap) : heap[k].enclosing = c

\* C9: a v2 item holds a name produced by the implied-name rule only if it
\* received no p-* and no e-* property, has no other value of name, and
\* holds no nested item, neither as a property value nor as a child; an item
\* that received a p-* property has no implied name.
C9_ImpliedNameGated ==
    \A c \in 1..Len(heap) :
        (~heap[c].backcompat /\ "name" \in DOMAIN heap[c].implied) =>
            /\ "p" \notin heap[c].received
            /\ "e" \notin heap[c].received
            /\ Len(heap[c].Properties["name"]) = 1
            /\ heap[c].Properties["name"][1] = StringValue(getImpliedName(doc, heap[c].node).name)
            /\ ~HasNested(c)

\* an item left by walk that received a p-* property and has no name, though
\* the implied-name ladder yields one for its node
C9_Witness ==
    \E c \in 1..Len(heap) :
        /\ Closed(c) /\ ~heap[c].backcompat
        /\ heap[c].received = {"p"}
        /\ ~HasNested(c)
        /\ "name" \notin DOMAIN heap[c].Properties
        /\ getImpliedName(doc, heap[c].node).name # <<>>

\* C10: a v2 item holds a photo (a url) produced by the implied rule only if
\* it holds no nested item, received no u-* property of any name, and has no
\* other value of photo (of url); an item that received a u-* property has
\* neither an implied photo nor an implied url.
C10_ImpliedPhotoURLGated ==
    \A c \in 1..Len(heap) : \A k \in {"photo", "url"} :
        (~heap[c].backcompat /\ k \in DOMAIN heap[c].implied) =>
            /\ "u" \notin heap[c].received
            /\ Len(heap[c].Properties[k]) = 1
            /\ ~HasNested(c)

\* an item left by walk that received a u-* property named photo and has no
\* url, though the implied-url ladder yields one for its node
C10_Witness ==
    \E c \in 1..Len(heap) :
        /\ Closed(c) /\ ~heap[c].backcompat
        /\ "u" \in heap[c].received
        /\ ~HasNested(c)
        /\ "photo" \in DOMAIN heap[c].Properties
        /\ "url" \notin DOMAIN heap[c].Properties
        /\ getImpliedURL(doc, heap[c].node, base).url # <<>>

\* the property names the backcompat property and rel mappings can yield for
\* an item of the given types
NamesIn(m, types) ==
    UNION {{m[t][k][2] : k \in DOMAIN m[t]} : t \in Range(types) \cap DOMAIN m}

MappedNames(types) ==
    NamesIn(backcompatPropertyOverrideMap, types) \cup NamesIn(backcompatRelMap, types)

\* C11: an item opened in backcompat mode holds no implied name, photo or
\* url, whatever its element, attributes and children are, and the names of
\* its properties are names the backcompat property and rel mappings yield
\* for its types.
C11_NoImpliedInBackcompat ==
    \A c \in 1..Len(heap) :
        heap[c].backcompat =>
            /\ heap[c].implied = NoProps
            /\ DOMAIN heap[c].Properties \subseteq MappedNames(heap[c].Type)

\* <a class="vcard" href="/p">Hi</a> is left with no property, though the
\* implied-name and implied-url ladders yield a value for it
C11_Witness ==
    \E c \in 1..Len(heap) :
        /\ Closed(c) /\ heap[c].backcompat
        /\ isAtom(doc, heap[c].node, {"a"})
        /\ getImpliedURL(doc, heap[c].node, base).url # <<>>
        /\ getImpliedName(doc, heap[c].node).name # <<>>
        /\ heap[c].Properties = NoProps

\* ------------------------------------------------------------------------
\* The base element
\* ------------------------------------------------------------------------
\* base elements with an absolute, a relative, an unparsable and no href,
\* an item and links with a relative href
BasePalette ==
    {El("template", NoAttr),
     El("base", [href |-> <<"http://other.example", "/">>]),
     El("base", [href |-> <<"/", "dir", "/">>]),
     El("base", [href |-> <<"%">>]),
     El("base", NoAttr),
     El("div", Class(<<"h-card">>)),
     El("a", [href |-> <<"x">>]),
     El("a", [rel |-> <<"me">>, href |-> <<"x">>])}

\* base elements that are adopted and that are not, and a link that is an
\* item, carries a rel value and has a relative href
FirstBasePalette ==
    {El("template", NoAttr),
     El("base", [href |-> <<"http://other.example", "/">>]),
     El("base", [href |-> <<"/", "dir", "/">>]),
     El("base", [href |-> <<"%">>]),
     El("base", NoAttr),
     El("a", [class |-> <<"h-card">>, rel |-> <<"me">>, href |-> <<"x">>])}

InitBase == InitWith(FirstBasePalette, {Some(ExampleBase)})

SpecBase == InitBase /\ [][Next]_vars

\* the first node walk reaches that is a base element with a non-empty
\* parsable href, 0 when the document has none
HonouredBase ==
    LET S == {n \in NodeIds(doc) : ~InTemplate(n) /\ AdoptsBase(doc, n, FALSE)}
    IN  IF S = {} THEN 0 ELSE CHOOSE n \in S : \A m \in S : n <= m

\* the href of the honoured base element resolved against the initial base
AdoptedBase ==
    Some(ResolveReference(Some(ExampleBase), ParseURL(getAttr(doc, HonouredBase, "href"))))

\* the last node of the subtree of n (of the document for n = 0)
LastDesc(n) ==
    IF n = 0 THEN Len(doc.node)
    ELSE CHOOSE m \in NodeIds(doc) :
             /\ n \in AncSelf(doc.parent, m)
             /\ \A k \in NodeIds(doc) : n \in AncSelf(doc.parent, k) => k <= m

\* every node up to Frontier was entered by walk or skipped below a template
Frontier == IF NextChild # 0 THEN NextChild - 1 ELSE LastDesc(Top.node)

\* the base URL of the parser when walk enters node n / when the loop over
\* the children of n is over
BaseAtEntry(n) ==
    IF HonouredBase # 0 /\ HonouredBase < n THEN AdoptedBase ELSE Some(ExampleBase)

BaseAtExit(n) ==
    IF HonouredBase # 0 /\ HonouredBase <= LastDesc(n) THEN AdoptedBase ELSE Some(ExampleBase)

RelLinksResolvedAtEntry ==
    \A n \in NodeIds(doc) : (~InTemplate(n) /\ n <= Frontier) =>
        \A i \in 1..Len(NodeRels(doc, n)) :
            /\ NodeRels(doc, n)[i] \in DOMAIN rels
            /\ expandURL(getAttr(doc, n, "href"), BaseAtEntry(n))
                   \in Range(rels[NodeRels(doc, n)[i]])

ImpliedURLOf(c, bs) == <<StringValue(getImpliedURL(doc, heap[c].node, bs).url)>>

HasImpliedURL(c) == Closed(c) /\ "url" \in DOMAIN heap[c].implied

InitNilBase == InitWith(BasePalette, {None})

SpecNilBase == InitNilBase /\ [][Next]_vars

\* with a nil base the URLs come out as they are written
NilBaseIsIdentity ==
    base = None =>
        /\ \A n \in NodeIds(doc) : (~InTemplate(n) /\ n <= Frontier) =>
              \A i \in 1..Len(NodeRels(doc, n)) :
                  /\ NodeRels(doc, n)[i] \in DOMAIN rels
                  /\ getAttr(doc, n, "href") \in Range(rels[NodeRels(doc, n)[i]])
        /\ \A c \in 1..Len(heap) : HasImpliedURL(c) =>
              heap[c].Properties["url"] =
                  <<StringValue(getAttr(doc, heap[c].implied["url"], "href"))>>

\* C13 as it is stated: walk never panics, whatever the document and also
\* with a nil base URL and a base element whose href is relative, and with
\* a nil base and no adopted base element URL resolution is the identity.
C13_NeverPanics ==
    /\ ~panicked
    /\ NilBaseIsIdentity

\* ------------------------------------------------------------------------
\* The order of the values of a property
\* ------------------------------------------------------------------------
\* the values of name k of item c come from nodes in document order
InDocumentOrder(c, k) ==
    \A i \in 1..Len(heap[c].contrib[k]) : \A j \in 1..Len(heap[c].contrib[k]) :
        i < j => heap[c].contrib[k][i] <= heap[c].contrib[k][j]

\* no contributor of name k to item c lies below another one
NoneBelowAnother(c, k) ==
    \A m \in Range(heap[c].contrib[k]) : \A n \in Range(heap[c].contrib[k]) :
        m # n => m \notin AncSelf(doc.parent, n)

\* the values of a property whose contributing elements do not contain one
\* another are in document order
SiblingOrderKept ==
    \A c \in 1..Len(heap) : \A k \in DOMAIN heap[c].contrib :
        NoneBelowAnother(c, k) => InDocumentOrder(c, k)

\* C14 as it is stated: for every item and property name the values are in
\* the document order of the elements that contributed them, also when one
\* contributing element lies below another one.
C14_SourceOrderKept ==
    \A c \in 1..Len(heap) : \A k \in DOMAIN heap[c].contrib : InDocumentOrder(c, k)

\* ------------------------------------------------------------------------
\* The input tree
\* ------------------------------------------------------------------------
\* C16 as it is stated: no step of ParseNode changes a node of the input
\* tree, so that every attribute has after the parse the value it had
\* before.
C16_InputUntouched == [][doc' = doc]_vars

\* ------------------------------------------------------------------------
\* Dates and times put together from value elements
\* ------------------------------------------------------------------------
DataValue(v) == El("data", [class |-> <<"value">>, value |-> v])

\* date, time and timezone fragments, alone and combined
FragmentPalette ==
    {El("template", NoAttr),
     DataValue(<<"2015-02-03">>), DataValue(<<"2006-01-02">>),
     DataValue(<<"21:15">>), DataValue(<<"21:15:00">>),
     DataValue(<<"Z">>), DataValue(<<"-08:00">>),
     DataValue(<<"21:15", "Z">>),
     DataValue(<<"2015-02-03", "T", "21:15:00">>)}

\* <div class="h-event"><span class="dt-start"> fragments </span></div>
DateDoc(frags) ==
    [parent |-> <<0, 1, 2>> \o [i \in 1..Len(frags) |-> 3],
     node |-> <<DocumentNode, El("div", Class(<<"h-event">>)),
                El("span", Class(<<"dt-start">>))>> \o frags]

DateDocs ==
    {DateDoc(frags) : frags \in UNION {[1..k -> FragmentPalette] : k \in 0..MaxFragments}}

InitDate ==
    /\ doc \in DateDocs
    /\ base = Some(ExampleBase)
    /\ heap = <<>>
    /\ items = <<>>
    /\ rels = [x \in {} |-> x]
    /\ relURLs = [x \in {} |-> x]
    /\ curItem = 0
    /\ baseFound = FALSE
    /\ stack = <<Frame(0, 0, 0, <<>>, <<>>)>>
    /\ panicked = FALSE
    /\ datetime = ZeroDatetime
    /\ calls = <<>>

SpecDate == InitDate /\ [][Next]_vars

\* the fragments of the dt-start element, in document order
Fragments == parseValueClassPattern(doc, 3, TRUE, base)

\* the pieces of kind k the fragments carry, in document order
Carried(frags, k) ==
    SelectSeq(Concat([i \in 1..Len(frags) |-> dtPieces(frags[i])]), LAMBDA c : dtKind(c) = k)

\* well-formed fragments, of which at most one carries a date, at most one a
\* time and at most one a timezone
FragmentSet(frags) ==
    /\ frags # <<>>
    /\ \A i \in 1..Len(frags) : dtValid(frags[i])
    /\ \A k \in {"d", "t", "z"} : Len(Carried(frags, k)) <= 1

\* YYYY-MM-DD, then " HH:MM" with its seconds if any, then Z or +-HHMM,
\* without the parts no fragment carries
Canonical(frags) ==
    Carried(frags, "d")
    \o (IF Carried(frags, "d") # <<>> /\ Carried(frags, "t") # <<>> THEN <<WS>> ELSE <<>>)
    \o Carried(frags, "t")
    \o (IF Carried(frags, "z") # <<>> THEN <<TZCanon(Carried(frags, "z")[1])>> ELSE <<>>)

Reordered(frags) == {[i \in 1..Len(frags) |-> frags[q[i]]] : q \in Perms(1..Len(frags))}

\* C17: when the fragments of a dt-* element are well formed and at most
\* one carries a date, one a time and one a timezone, the value of the
\* property is the canonical string of the parts they carry, and it is the
\* string the accumulator gives for the fragments fed in any other order.
C17_FragmentOrderFree ==
    (Done /\ FragmentSet(Fragments)) =>
        /\ heap[1].Properties["start"] = <<StringValue(Canonical(Fragments))>>
        /\ \A q \in Reordered(Fragments) :
              dtString(dtParseAll(dtZero, q)) = Canonical(Fragments)

\* timezone, time and date in that order give 2015-02-03 21:15:00-0800
C17_Witness ==
    /\ Done
    /\ Fragments = << <<"-08:00">>, <<"21:15:00">>, <<"2015-02-03">> >>
    /\ FragmentSet(Fragments)
    /\ heap[1].Properties["start"] = <<StringValue(<<"2015-02-03", WS, "21:15:00", "-0800">>)>>

\* ------------------------------------------------------------------------
\* The current item
\* ------------------------------------------------------------------------
RECURSIVE InnermostItem(_)
\* the item opened by the innermost call of the calls st that opened one,
\* 0 when none did
InnermostItem(st) ==
    IF st = <<>> THEN 0
    ELSE IF st[Len(st)].cur # 0 THEN st[Len(st)].cur
    ELSE InnermostItem(SubSeq(st, 1, Len(st) - 1))

\* C18: the current item is the item opened by the innermost active call of
\* walk that opened one, so that it is X or an item opened below X while the
\* descendants of the node that opened X are walked; the return of a call
\* leaves the current item that was there when the call was made, which
\* the call that opened an item kept as its prior item; and no item is
\* current when ParseNode returns.
C18_CurrentItemIsStackTop ==
    /\ curItem = InnermostItem(stack)
    /\ \A i \in 2..Len(stack) :
          stack[i].cur # 0 => stack[i].prior = InnermostItem(SubSeq(stack, 1, i - 1))
    /\ Done => curItem = 0

\* an item opened below item X was left, X is the current item again and
\* has a further child to walk
C18_Witness ==
    /\ ~Done
    /\ NextChild # 0
    /\ curItem # 0
    /\ Top.cur = curItem
    /\ \E c \in 1..Len(heap) : Closed(c) /\ heap[c].enclosing = curItem

\* ------------------------------------------------------------------------
\* The two vocabularies
\* ------------------------------------------------------------------------
\* C19: an item whose node has a v2 root class is not a backcompat item and
\* its type holds the v2 root classes of the node and nothing else, v1 root
\* names of the node being ignored; an item whose node has no v2 root class
\* is a backcompat item and its type holds the translations of the v1 root
\* names of the node.
C19_BackcompatOnlyWithoutV2 ==
    \A c \in 1..Len(heap) :
        IF V2RootClasses(c) # <<>>
        THEN /\ ~heap[c].backcompat
             /\ SamePieces(heap[c].Type, V2RootClasses(c))
        ELSE /\ heap[c].backcompat
             /\ SamePieces(heap[c].Type, backcompatRootClasses(getClasses(doc, heap[c].node)))

\* class="h-card vcard" opens an item of type [h-card] that is not backcompat
C19_Witness ==
    \E c \in 1..Len(heap) :
        /\ Closed(c)
        /\ getClasses(doc, heap[c].node) = <<"h-card", "vcard">>
        /\ backcompatRootClasses(getClasses(doc, heap[c].node)) = <<"h-card">>
        /\ heap[c].Type = <<"h-card">>
        /\ ~heap[c].backcompat

\* the item opened by the nearest proper ancestor of node n that opened one,
\* 0 when there is none
EnclosingItemOf(n) ==
    LET above == {c \in 1..Len(heap) :
                     heap[c].node # n /\ heap[c].node \in AncSelf(doc.parent, n)}
    IN  IF above = {} THEN 0
        ELSE CHOOSE c \in above : \A d \in above : heap[d].node <= heap[c].node

\* the call walk(n) was made and has returned
Returned(n) ==
    /\ ~InTemplate(n)
    /\ n <= Frontier
    /\ \A i \in 1..Len(stack) : stack[i].node # n

\* the names the v2 property pattern gives for the classes of node n
V2Names(n) ==
    {propertyClassNames[c][2] : c \in Range(getClasses(doc, n)) \cap DOMAIN propertyClassNames}

\* the names table m gives for the keys under an item of the given types
NamesFor(m, keys, types) ==
    UNION {{m[t][k][2] : k \in Range(keys) \cap DOMAIN m[t]} : t \in Range(types) \cap DOMAIN m}

\* the names the backcompat property and rel maps give for node n under
\* item m
V1Names(n, m) ==
    NamesFor(backcompatPropertyOverrideMap, getClasses(doc, n), heap[m].Type)
        \cup NamesFor(backcompatRelMap, NodeRels(doc, n), heap[m].Type)

NamesUnder(n, m) == IF heap[m].backcompat THEN V1Names(n, m) ELSE V2Names(n)

\* C20: a node contributes property values to the item that encloses it
\* when its own item, if any, is popped, and to no other; under a
\* backcompat item it contributes exactly the names the backcompat property
\* and rel maps give for its classes and rels, v2-prefixed classes giving
\* nothing; under a v2 item exactly the names of its v2 property classes,
\* v1 names giving nothing; with no enclosing item it contributes nothing.
C20_VocabularyOfEnclosingItem ==
    /\ \A m \in 1..Len(heap) : \A k \in DOMAIN heap[m].contrib :
          \A n \in Range(heap[m].contrib[k]) :
              EnclosingItemOf(n) = m /\ k \in NamesUnder(n, m)
    /\ \A n \in NodeIds(doc) : (Returned(n) /\ EnclosingItemOf(n) # 0) =>
          \A k \in NamesUnder(n, EnclosingItemOf(n)) :
              /\ k \in DOMAIN heap[EnclosingItemOf(n)].contrib
              /\ n \in Range(heap[EnclosingItemOf(n)].contrib[k])
    /\ \A m \in 1..Len(heap) :
          DOMAIN heap[m].Properties \subseteq DOMAIN heap[m].contrib \cup DOMAIN heap[m].implied

\* <span class="fn p-note"> below class="vcard" gives the item a name and
\* no note
C20_Witness ==
    \E n \in NodeIds(doc) :
        /\ Returned(n)
        /\ getClasses(doc, n) = <<"fn", "p-note">>
        /\ EnclosingItemOf(n) # 0
        /\ heap[EnclosingItemOf(n)].backcompat
        /\ DOMAIN heap[EnclosingItemOf(n)].Properties = {"name"}
        /\ heap[EnclosingItemOf(n)].contrib["name"] = <<n>>

\* ------------------------------------------------------------------------
\* Documents with the include pattern and itemref
\* ------------------------------------------------------------------------
\* the backcompat item x, with and without itemref
IncludeRoots ==
    {El("div", [class |-> <<"vcard">>, id |-> <<"x">>]),
     El("div", [class |-> <<"vcard">>, id |-> <<"x">>, itemref |-> <<"y">>]),
     El("div", [class |-> <<"vcard">>, id |-> <<"x">>, itemref |-> <<"x", WS, "y">>])}

\* the element y that is referred to
IncludeNamed ==
    {El("div", [id |-> <<"y">>]),
     El("span", [class |-> <<"fn">>, id |-> <<"y">>])}

\* the elements below x and y: references to x, to y, to no element, and
\* elements that refer to nothing
IncludePalette ==
    {El("template", NoAttr),
     El("span", Class(<<"fn">>)),
     El("a", [class |-> <<"include">>, href |-> <<"#", "x">>]),
     El("a", [class |-> <<"include">>, href |-> <<"#", "y">>]),
     El("object", [class |-> <<"include">>, data |-> <<"#", "y">>]),
     El("a", [class |-> <<"include">>, href |-> <<"#">>]),
     El("a", [class |-> <<"include">>, href |-> <<"#", "z">>])}

\* x with one child, y with one child; y is the next sibling of x or its
\* second child
IncludeDocs ==
    {[parent |-> <<0, 1, 2, py, 4>>, node |-> <<DocumentNode, x, c, y, d>>] :
        py \in {1, 2}, x \in IncludeRoots, c \in IncludePalette,
        y \in IncludeNamed, d \in IncludePalette}

InitInclude ==
    /\ doc \in IncludeDocs
    /\ base = Some(ExampleBase)
    /\ heap = <<>>
    /\ items = <<>>
    /\ rels = [x \in {} |-> x]
    /\ relURLs = [x \in {} |-> x]
    /\ curItem = 0
    /\ baseFound = FALSE
    /\ stack = <<Frame(0, 0, 0, <<>>, <<>>)>>
    /\ panicked = FALSE
    /\ datetime = ZeroDatetime
    /\ calls = <<>>

SpecInclude == InitInclude /\ [][Next]_vars

\* the nodes walk(n) calls walk on when the include hook is consulted
Calls(n) ==
    IF isAtom(doc, n, {"template"}) THEN {}
    ELSE Range(Children(doc, IncludeHook(doc, n, TRUE).node))
             \cup Range(IncludeHook(doc, n, TRUE).extra)

RECURSIVE CalledWithin(_, _)
\* the nodes reached from the nodes S by at most k calls
CalledWithin(S, k) ==
    IF k = 0 THEN S ELSE S \cup CalledWithin(UNION {Calls(n) : n \in S}, k - 1)

\* no chain of calls leads from a node back to that node
NoIncludeCycle == \A n \in NodeIds(doc) : n \notin CalledWithin(Calls(n), Len(doc.node))

\* a reference to the node itself or to an ancestor of it is ignored: the
\* call goes on with a node that is the node it was made on or is not on
\* the path from that node to the root
AncestorReferenceIgnored ==
    [][Len(stack') > Len(stack) =>
          /\ \/ stack'[Len(stack')].node = NextChild
             \/ ~isAncestorNode(doc, NextChild, stack'[Len(stack')].node)
          /\ \A i \in 1..Len(stack'[Len(stack')].extra) :
                ~isAncestorNode(doc, NextChild, stack'[Len(stack')].extra[i])]_vars

\* no call of walk is made on a node, with the include hook consulted or
\* not as before, while a call on that node is active
NoCallRepeats ==
    \A i \in 2..Len(stack) : \A j \in 2..Len(stack) :
        i < j => (stack[i].arg # stack[j].arg \/ stack[i].hooked # stack[j].hooked)

\* the walk of a document without a cycle of references never repeats a call
\* and never needs more than MaxDepth active calls
AcyclicWalkEnds ==
    NoIncludeCycle => (NoCallRepeats /\ Len(stack) <= MaxDepth)

\* C15 as it is stated: the walk of every document comes to its end, also
\* when include and itemref references point at the node itself, at an
\* ancestor or at each other across sibling subtrees.  The calls a call of
\* walk makes depend on its node and on whether the include hook is
\* consulted, so a walk that comes to its end never makes a call again
\* while that call is active.
C15_WalkTerminates == NoCallRepeats

\* ------------------------------------------------------------------------
\* The translation of v1 property classes and rel values
\* ------------------------------------------------------------------------
\* items of two types each, and elements whose classes and rel values the
\* types translate differently, alike, or not at all
TranslatePalette ==
    {El("template", NoAttr),
     El("div", Class(<<"vcard", WS, "hreview">>)),
     El("div", Class(<<"hentry", WS, "vevent">>)),
     El("a", [class |-> <<"category">>, rel |-> <<"tag", WS, "bookmark">>,
              href |-> <<"/", "t", "/", "x">>]),
     El("span", Class(<<"fn", WS, "summary">>)),
     El("a", [class |-> <<"url">>, rel |-> <<"bookmark">>, href |-> <<"/", "t", "/", "x">>])}

InitTranslate == InitWith(TranslatePalette, {Some(ExampleBase)})

SpecTranslate == InitTranslate /\ [][Next]_vars

\* the entries table m has for the keys under the given types
TranslationsFor(m, keys, types) ==
    UNION {{m[t][k] : k \in Range(keys) \cap DOMAIN m[t]} : t \in Range(types) \cap DOMAIN m}

\* what the claim lets the call return: every translation of a rel value,
\* and every translation of a class whose name no rel translation has
Translations(classes, rs, types) ==
    LET ofRels == TranslationsFor(backcompatRelMap, rs, types)
        ofClasses == TranslationsFor(backcompatPropertyOverrideMap, classes, types)
    IN  ofRels \cup {c \in ofClasses : \A r \in ofRels : r[2] # c[2]}

\* a slice the call returns holds exactly those, each once, no two with the
\* same name
ReturnsTranslations(q, classes, rs, types) ==
    /\ Range(q) = Translations(classes, rs, types)
    /\ \A i \in 1..Len(q) : \A j \in 1..Len(q) : q[i][2] = q[j][2] => i = j

GenericPalette ==
    {Text(<<"A">>),
     El("template", NoAttr),
     El("div", Class(<<"adr">>)),
     El("div", Class(<<"vcard">>)),
     El("span", Class(<<"author">>)),
     El("span", Class(<<"title">>))}

InitGeneric == InitWith(GenericPalette, {Some(ExampleBase)})

SpecGeneric == InitGeneric /\ [][Next]_vars

\* no type of the list has an entry for class c in its own table
NoTypeRule(c, types) ==
    \A t \in Range(types) \cap DOMAIN backcompatPropertyOverrideMap :
        c \notin DOMAIN backcompatPropertyOverrideMap[t]

\* C22: a class of the generic property table for which no type of the
\* enclosing backcompat item has a rule of its own is translated by the
\* generic table: every slice backcompatPropertyClasses returns holds that
\* translation, and a node walk has left has contributed a value under its
\* name to the item around it.
C22_GenericFallback ==
    \A n \in NodeIds(doc) :
        (Returned(n) /\ EnclosingItemOf(n) # 0 /\ heap[EnclosingItemOf(n)].backcompat) =>
            \A c \in Range(getClasses(doc, n)) \cap DOMAIN backcompatPropertyMap :
                NoTypeRule(c, heap[EnclosingItemOf(n)].Type) =>
                    /\ \A q \in backcompatPropertyClasses(getClasses(doc, n), NodeRels(doc, n),
                                                           heap[EnclosingItemOf(n)].Type) :
                           backcompatPropertyMap[c] \in Range(q)
                    /\ n \in Range(PropValues(heap[EnclosingItemOf(n)].contrib,
                                              backcompatPropertyMap[c][2]))

\* where a type of the item has a rule for the class, that rule is applied:
\* title under h-card is job-title
TypeRuleApplied ==
    \A n \in NodeIds(doc) :
        (Returned(n) /\ EnclosingItemOf(n) # 0 /\ heap[EnclosingItemOf(n)].backcompat) =>
            \A c \in Range(getClasses(doc, n)) \cap DOMAIN backcompatPropertyMap :
                ~NoTypeRule(c, heap[EnclosingItemOf(n)].Type) =>
                    \E t \in Range(heap[EnclosingItemOf(n)].Type) :
                        n \in Range(PropValues(heap[EnclosingItemOf(n)].contrib,
                                               backcompatPropertyOverrideMap[t][c][2]))

\* ------------------------------------------------------------------------
\* The sources of a u-* value
\* ------------------------------------------------------------------------
UClass == Class(<<"u-url", WS, "url">>)

\* elements with a u-* class and its v1 name, with one source, with several
\* and with none but what is below them
UElements ==
    {El("a", [class |-> <<"u-url", WS, "url">>, href |-> <<"/", "h">>, title |-> <<"/", "t">>]),
     El("a", UClass),
     El("img", [class |-> <<"u-photo", WS, "photo">>, src |-> <<"/", "i.png">>, alt |-> <<"A">>]),
     El("img", [class |-> <<"u-photo", WS, "photo">>, alt |-> <<"A">>]),
     El("img", [class |-> <<"u-photo", WS, "photo">>, src |-> <<"/", "i.png">>, alt |-> <<>>]),
     El("video", [class |-> <<"u-url", WS, "url">>, src |-> <<"/", "v">>, poster |-> <<"/", "p">>]),
     El("video", [class |-> <<"u-url", WS, "url">>, poster |-> <<"/", "p">>]),
     El("object", [class |-> <<"u-url", WS, "url">>, data |-> <<"/", "o">>]),
     El("abbr", [class |-> <<"u-url", WS, "url">>, title |-> <<"/", "t">>]),
     El("data", [class |-> <<"u-url", WS, "url">>, value |-> <<WS, "/", "v", WS>>]),
     El("span", UClass)}

\* what is below the element: text, a value element, a template
UBelow ==
    {Text(<<"Hi">>),
     El("data", [class |-> <<"value">>, value |-> <<"/", "vc">>]),
     El("template", NoAttr)}

\* a v2 or a backcompat item, a u-* element below it and a node below that
URLDocs ==
    {[parent |-> <<0, 1, 2, 3>>, node |-> <<DocumentNode, x, c, g>>] :
        x \in {El("div", Class(<<"h-card">>)), El("div", Class(<<"vcard">>))},
        c \in UElements, g \in UBelow}

InitURL ==
    /\ doc \in URLDocs
    /\ base = Some(ExampleBase)
    /\ heap = <<>>
    /\ items = <<>>
    /\ rels = [x \in {} |-> x]
    /\ relURLs = [x \in {} |-> x]
    /\ curItem = 0
    /\ baseFound = FALSE
    /\ stack = <<Frame(0, 0, 0, <<>>, <<>>)>>
    /\ panicked = FALSE
    /\ datetime = ZeroDatetime
    /\ calls = <<>>

SpecURL == InitURL /\ [][Next]_vars

\* the attribute a of node n when n is one of the elements tags and has it
SourceAttr(D, n, tags, a) ==
    IF isAtom(D, n, tags) /\ hasAttr(D, n, a) THEN Some(getAttr(D, n, a)) ELSE None

\* the sources of a u-* value in the order of the claim; the last is the
\* trimmed text content
USources(D, n, bs) ==
    <<SourceAttr(D, n, {"a", "area", "link"}, "href"),
      SourceAttr(D, n, {"img"}, "src"),
      SourceAttr(D, n, {"audio", "video", "source"}, "src"),
      SourceAttr(D, n, {"object"}, "data"),
      SourceAttr(D, n, {"video"}, "poster"),
      getValueClassPattern(D, n, bs),
      SourceAttr(D, n, {"abbr"}, "title"),
      SourceAttr(D, n, {"data", "input"}, "value"),
      Some(TrimSpace(getTextContent(D, n, "nil", bs)))>>

\* the first source that is present, resolved against the base and trimmed
UString(D, n, bs) == TrimSpace(expandURL(FirstOf(USources(D, n, bs))[1], bs))

\* the value the claim lets node n give an item: {value, alt} for an img
\* with a non-empty alt under a v2 item, the string otherwise
UExpected(D, n, bs, backcompat) ==
    IF isAtom(D, n, {"img"}) /\ ~backcompat /\ getAttr(D, n, "alt") # <<>>
    THEN MapValue([value |-> UString(D, n, bs), alt |-> getAttr(D, n, "alt")])
    ELSE StringValue(UString(D, n, bs))

\* the names of the u-* properties node n yields under item m
UNamesOf(n, m) ==
    IF heap[m].backcompat
    THEN {c[2] : c \in {t \in Translations(getClasses(doc, n), NodeRels(doc, n), heap[m].Type) :
                            t[1] = "u"}}
    ELSE {propertyClassNames[c][2] :
             c \in {t \in Range(getClasses(doc, n)) \cap DOMAIN propertyClassNames :
                       propertyClassNames[t][1] = "u"}}

Last(s) == s[Len(s)]

\* C23: when walk leaves a node that opened no item and has u-* property
\* classes for the current item, the value it appends under each of their
\* names is the first source that is present, in the order href, src of img,
\* src of audio / video / source, data, poster, value-class pattern, title of
\* abbr, value of data / input, text content, resolved against the base and
\* trimmed; it is {value, alt} for an img with a non-empty alt under a v2
\* item and a plain string otherwise.
C23_FirstSourceResolved ==
    [][(~panicked /\ Len(stack) > 1 /\ NextChild = 0 /\ Top.cur = 0 /\ curItem # 0) =>
          \A k \in UNamesOf(Top.node, curItem) :
              /\ k \in DOMAIN heap'[curItem].Properties
              /\ Len(heap'[curItem].Properties[k]) = Len(PropValues(heap[curItem].Properties, k)) + 1
              /\ Last(heap'[curItem].Properties[k])
                     = UExpected(doc, Top.node, base, heap[curItem].backcompat)]_vars

\* a video with src and poster has given its src, resolved
C23_Witness ==
    /\ Done
    /\ \E n \in NodeIds(doc) :
          /\ isAtom(doc, n, {"video"})
          /\ hasAttr(doc, n, "poster")
          /\ hasAttr(doc, n, "src")
          /\ EnclosingItemOf(n) # 0
          /\ ~heap[EnclosingItemOf(n)].backcompat
          /\ heap[EnclosingItemOf(n)].contrib["url"] = <<n>>
          /\ heap[EnclosingItemOf(n)].Properties["url"]
                 = <<StringValue(<<"http://example.com", "/", "v">>)>>

\* ------------------------------------------------------------------------
\* Nested items as property values
\* ------------------------------------------------------------------------
\* elements that open an item and have a property class for the item around
\* them, one for each prefix, v2 and v1
NestedElements ==
    {El("div", [class |-> <<"p-author", WS, "h-card">>, id |-> <<"i1">>]),
     El("a", [class |-> <<"u-url", WS, "h-card">>, href |-> <<"/", "h">>]),
     El("div", Class(<<"dt-start", WS, "h-card">>)),
     El("div", Class(<<"e-content", WS, "h-card">>)),
     El("div", Class(<<"agent", WS, "vcard">>))}

\* what is below them: text, a name that is a string, a name and a url that
\* are maps, a url and a name that are strings, a template
NestedBelow ==
    {Text(<<"Hi">>),
     El("abbr", [class |-> <<"p-name">>, title |-> <<"T">>]),
     El("img", [class |-> <<"u-name", WS, "u-url">>, src |-> <<"/", "i.png">>, alt |-> <<"A">>]),
     El("a", [class |-> <<"u-url", WS, "p-name">>, href |-> <<"/", "u">>]),
     El("template", NoAttr)}

NestedDocs ==
    {[parent |-> <<0, 1, 2, 3>>, node |-> <<DocumentNode, x, c, g>>] :
        x \in {El("div", Class(<<"h-card">>)), El("div", Class(<<"vcard">>))},
        c \in NestedElements, g \in NestedBelow}

InitNested ==
    /\ doc \in NestedDocs
    /\ base = Some(ExampleBase)
    /\ heap = <<>>
    /\ items = <<>>
    /\ rels = [x \in {} |-> x]
    /\ relURLs = [x \in {} |-> x]
    /\ curItem = 0
    /\ baseFound = FALSE
    /\ stack = <<Frame(0, 0, 0, <<>>, <<>>)>>
    /\ panicked = FALSE
    /\ datetime = ZeroDatetime
    /\ calls = <<>>

SpecNested == InitNested /\ [][Next]_vars

\* the property classes node n yields under item m
ClassesOf(n, m) ==
    IF heap[m].backcompat
    THEN Translations(getClasses(doc, n), NodeRels(doc, n), heap[m].Type)
    ELSE {propertyClassNames[c] : c \in Range(getClasses(doc, n)) \cap DOMAIN propertyClassNames}

\* the first value of property k of item it when that is a string, else v
FirstStringOr(it, k, v) ==
    IF k \in DOMAIN it.Properties /\ it.Properties[k][1].kind = "string"
    THEN it.Properties[k][1].value
    ELSE v

\* the value the claim embeds in the nested value of prefix pre: n is the
\* node, it the item it opened as walk leaves it
EmbeddedValue(pre, n, it) ==
    CASE pre = "p"  -> FirstStringOr(it, "name", ReadValue(doc, PLadder(doc, n, base)))
      [] pre = "u"  -> FirstStringOr(it, "url", UString(doc, n, base))
      [] pre = "dt" -> ReadValue(doc, DTLadder(doc, n, base))
      [] pre = "e"  -> TrimSpace(getTextContent(doc, n, "altsrc", base))

\* the nested value: the type, properties (those of item c itself), id,
\* shape and coords of the opened item, the embedded value, html for e-*
IsNestedValueOf(v, c, pre, n, it) ==
    /\ v.kind = "mf"
    /\ v.ref = c
    /\ v.Type = it.Type
    /\ v.ID = it.ID
    /\ v.Shape = it.Shape
    /\ v.Coords = it.Coords
    /\ v.Value = EmbeddedValue(pre, n, it)
    /\ v.HTML = IF pre = "e" THEN RenderChildren(ExpandAll(doc, Children(doc, n), base), n)
                ELSE <<>>

\* C24: when walk leaves a node that opened an item and has a property
\* class for the item around it, the value appended to that item is a
\* nested value with the type, properties, id, shape and coords of the
\* opened item, whose value is the first name (p-*) or url (u-*) of the
\* opened item when that is a string and the value of the ladder otherwise,
\* and the value of the ladder for dt-* and e-*, with html for e-* only.
C24_NestedValueEmbeds ==
    [][(~panicked /\ Len(stack) > 1 /\ NextChild = 0 /\ Top.cur # 0 /\ Top.prior # 0) =>
          \A c \in ClassesOf(Top.node, Top.prior) :
              /\ c[2] \in DOMAIN heap'[Top.prior].Properties
              /\ Len(heap'[Top.prior].Properties[c[2]])
                     = Len(PropValues(heap[Top.prior].Properties, c[2])) + 1
              /\ IsNestedValueOf(Last(heap'[Top.prior].Properties[c[2]]), Top.cur, c[1],
                                 Top.node, heap'[Top.cur])]_vars

\* a nested url value whose value is the url of the opened item, not the
\* href of its own node, and a nested author whose value is the name of the
\* opened item where the text of its node is empty
C24_Witness ==
    /\ Done
    /\ \E m \in 1..Len(heap) :
          \/ \E v \in Range(PropValues(heap[m].Properties, "url")) :
                /\ v.kind = "mf"
                /\ v.Value = <<"http://example.com", "/", "u">>
                /\ getAttr(doc, heap[v.ref].node, "href") = <<"http://example.com", "/", "h">>
                /\ heap[v.ref].Properties["url"][1] = StringValue(v.Value)
          \/ \E v \in Range(PropValues(heap[m].Properties, "author")) :
                /\ v.kind = "mf"
                /\ v.Value = <<"T">>
                /\ getTextContent(doc, heap[v.ref].node, "altsrc", base) = <<>>

\* ------------------------------------------------------------------------
\* The value-class pattern
\* ------------------------------------------------------------------------
\* children of a property element: with class value on every kind of
\* element the pattern knows, with both classes, with neither, text
ValueKids ==
    {El("img", [class |-> <<"value">>, alt |-> <<"a">>, title |-> <<"t">>]),
     El("img", [class |-> <<"value", WS, "value-title">>, alt |-> <<"a">>, title |-> <<"t">>]),
     El("data", [class |-> <<"value">>, value |-> <<"v">>]),
     El("abbr", [class |-> <<"value">>, title |-> <<"t">>]),
     El("time", [class |-> <<"value">>, datetime |-> <<"2015-02-03">>]),
     El("b", Class(<<"value">>)),
     El("b", [title |-> <<"t">>, alt |-> <<"a">>]),
     Text(<<"x">>)}

\* a child with something below it
ValueParents ==
    {El("b", Class(<<"value">>)), El("b", NoAttr), El("abbr", Class(<<"value">>))}

ValueGrandKids ==
    {Text(<<WS, "c", WS>>), El("b", [class |-> <<"value-title">>, title |-> <<"t">>]),
     El("img", [class |-> <<"value">>, alt |-> <<"a">>]), El("template", NoAttr)}

ValueProperties == {El("span", Class(<<"p-name">>)), El("span", Class(<<"dt-start">>))}

\* <div class="h-event"><span class=...> two children </span></div> and
\* <div class="h-event"><span class=...> child > grandchild </span></div>
ValueDocs ==
    {[parent |-> <<0, 1, 2, 3, 3>>,
      node |-> <<DocumentNode, El("div", Class(<<"h-event">>)), q, k1, k2>>] :
        q \in ValueProperties, k1 \in ValueKids, k2 \in ValueKids}
    \cup
    {[parent |-> <<0, 1, 2, 3, 4>>,
      node |-> <<DocumentNode, El("div", Class(<<"h-event">>)), q, k, g>>] :
        q \in ValueProperties, k \in ValueParents, g \in ValueGrandKids}

InitValue ==
    /\ doc \in ValueDocs
    /\ base = Some(ExampleBase)
    /\ heap = <<>>
    /\ items = <<>>
    /\ rels = [x \in {} |-> x]
    /\ relURLs = [x \in {} |-> x]
    /\ curItem = 0
    /\ baseFound = FALSE
    /\ stack = <<Frame(0, 0, 0, <<>>, <<>>)>>
    /\ panicked = FALSE
    /\ datetime = ZeroDatetime
    /\ calls = <<>>

SpecValue == InitValue /\ [][Next]_vars

HasClass(D, c, k) == k \in Range(getClasses(D, c))

\* what a node with class value contributes: the first of these it has
ValueSources(D, c, dt, bs) ==
    <<SourceAttr(D, c, {"img", "area"}, "alt"),
      SourceAttr(D, c, {"data"}, "value"),
      SourceAttr(D, c, {"abbr"}, "title"),
      IF dt THEN SourceAttr(D, c, {"del", "ins", "time"}, "datetime") ELSE None,
      Some(TrimSpace(getTextContent(D, c, "nil", bs)))>>

\* the nodes whose parent is n that have one of the two classes, in
\* document order
Contributors(D, n) ==
    SelectSeq([i \in 1..Len(D.node) |-> i],
              LAMBDA c : D.parent[c] = n /\ (HasClass(D, c, "value") \/ HasClass(D, c, "value-title")))

Contribution(D, c, dt, bs) ==
    IF HasClass(D, c, "value-title") THEN getAttr(D, c, "title")
    ELSE FirstOf(ValueSources(D, c, dt, bs))[1]

\* C25: the value-class pattern of a node is made of the contributions of
\* its direct children that have class value-title (the title attribute)
\* or else class value (alt of img and area, value of data, title of abbr,
\* in date mode datetime of del, ins and time, else the trimmed text), in
\* document order; outside date mode they are joined with no separator, and
\* the result is nil when no child contributes; a p-* property whose node
\* has a contributing child takes the joined string as its value.
C25_ValueClassPattern ==
    /\ \A n \in 1..Len(doc.node) :
          LET cs == Contributors(doc, n) IN
          /\ \A dt \in BOOLEAN :
                parseValueClassPattern(doc, n, dt, base)
                    = [i \in 1..Len(cs) |-> Contribution(doc, cs[i], dt, base)]
          /\ getValueClassPattern(doc, n, base)
                = IF cs = <<>> THEN None
                  ELSE Some(Concat([i \in 1..Len(cs) |-> Contribution(doc, cs[i], FALSE, base)]))
    /\ (Done /\ HasClass(doc, 3, "p-name") /\ Contributors(doc, 3) # <<>>) =>
          LET cs == Contributors(doc, 3) IN
          PropValues(heap[1].Properties, "name")
              = <<StringValue(Concat([i \in 1..Len(cs) |-> Contribution(doc, cs[i], FALSE, base)]))>>

\* name is "ta": the alt of one img, the title of the other which has both
\* classes, in the order of the document
C25_Witness ==
    /\ Done
    /\ HasClass(doc, 4, "value-title") /\ HasClass(doc, 4, "value")
    /\ doc.parent[5] = 3 /\ HasClass(doc, 5, "value") /\ ~HasClass(doc, 5, "value-title")
    /\ PropValues(heap[1].Properties, "name") = <<StringValue(<<"t", "a">>)>>

\* a value element below a child without either class gives nothing: name
\* is the text of the node
C25_WitnessDeep ==
    /\ Done
    /\ doc.parent[5] = 4 /\ HasClass(doc, 5, "value")
    /\ Contributors(doc, 3) = <<>>
    /\ getValueClassPattern(doc, 3, base) = None
    /\ "name" \in DOMAIN heap[1].Properties

\* ------------------------------------------------------------------------
\* The setters of a datetime
\* ------------------------------------------------------------------------
MaxCalls == 4

Dates == {<<2000, 1, 2>>, <<2003, 4, 5>>, <<1, 1, 1>>}

Clocks == {<<1, 2, 3>>, <<4, 5, 6>>, <<0, 0, 0>>}

Locations == {"UTC", "-0800"}

\* var d datetime, with no document to walk
InitDatetime ==
    /\ doc = [parent |-> <<0>>, node |-> <<DocumentNode>>]
    /\ base = None
    /\ heap = <<>>
    /\ items = <<>>
    /\ rels = [x \in {} |-> x]
    /\ relURLs = [x \in {} |-> x]
    /\ curItem = 0
    /\ baseFound = FALSE
    /\ stack = <<>>
    /\ panicked = FALSE
    /\ datetime = ZeroDatetime
    /\ calls = <<>>

Walker == <<doc, heap, items, rels, relURLs, curItem, base, baseFound, stack, panicked>>

SetDate ==
    /\ Len(calls) < MaxCalls
    /\ \E date \in Dates :
          /\ datetime' = setDate(datetime, date)
          /\ calls' = Append(calls, [kind |-> "date", arg |-> date])
    /\ UNCHANGED Walker

SetTime ==
    /\ Len(calls) < MaxCalls
    /\ \E clock \in Clocks :
          /\ datetime' = setTime(datetime, clock)
          /\ calls' = Append(calls, [kind |-> "time", arg |-> clock])
    /\ UNCHANGED Walker

SetTZ ==
    /\ Len(calls) < MaxCalls
    /\ \E loc \in Locations :
          /\ datetime' = setTZ(datetime, loc)
          /\ calls' = Append(calls, [kind |-> "tz", arg |-> loc])
    /\ UNCHANGED Walker

NextDatetime == SetDate \/ SetTime \/ SetTZ

SpecDatetime == InitDatetime /\ [][NextDatetime]_vars

\* the calls of one kind, in the order they were made
CallsOf(cs, kind) == SelectSeq(cs, LAMBDA c : c.kind = kind)

\* the argument of the first call of a kind, z when there was none
FirstArg(cs, kind, z) == IF CallsOf(cs, kind) = <<>> THEN z ELSE CallsOf(cs, kind)[1].arg

\* the flag of a kind
Flag(dd, kind) ==
    CASE kind = "date" -> dd.hasDate [] kind = "time" -> dd.hasTime [] kind = "tz" -> dd.hasTZ

\* C26: after every call of setDate, setTime or setTZ the timestamp holds
\* the arguments of the first call of each kind (and of the zero time for
\* a kind never called), a call of a kind that was called before changes
\* neither the timestamp nor a flag, and a call changes the flag of no
\* other kind.
C26_SetOnce ==
    [][calls' # calls =>
          LET c == Last(calls') IN
          /\ datetime'.t.date = FirstArg(calls', "date", ZeroTime.date)
          /\ datetime'.t.clock = FirstArg(calls', "time", ZeroTime.clock)
          /\ datetime'.t.loc = FirstArg(calls', "tz", ZeroTime.loc)
          /\ Flag(datetime', c.kind)
          /\ (CallsOf(calls, c.kind) # <<>> => datetime' = datetime)
          /\ \A k \in {"date", "time", "tz"} \ {c.kind} : Flag(datetime', k) = Flag(datetime, k)
          /\ datetime'.hasSeconds = datetime.hasSeconds]_vars

\* setDate was called twice with different dates and setTime never: the
\* date is that of the first call, hasTime is not set
C26_Witness ==
    /\ Len(CallsOf(calls, "date")) >= 2
    /\ CallsOf(calls, "date")[1].arg # CallsOf(calls, "date")[2].arg
    /\ CallsOf(calls, "tz") # <<>>
    /\ CallsOf(calls, "time") = <<>>
    /\ datetime.t.date = CallsOf(calls, "date")[1].arg
    /\ datetime.hasDate /\ datetime.hasTZ /\ ~datetime.hasTime

\* ------------------------------------------------------------------------
\* The implied date of end
\* ------------------------------------------------------------------------
DataProperty(class, v) == El("data", [class |-> <<class>>, value |-> v])

\* start and end values: no date or time at all, date and time, time only,
\* date only, time and timezone
EndDatePalette ==
    {DataProperty("dt-start", <<"foo">>),
     DataProperty("dt-start", <<"2006-01-02", WS, "03:04:05">>),
     DataProperty("dt-start", <<"03:04:05">>),
     DataProperty("dt-start", <<"2007-01-02">>),
     DataProperty("dt-end", <<"bar">>),
     DataProperty("dt-end", <<"01:02:03">>),
     DataProperty("dt-end", <<"2007-01-02", WS, "01:02:03">>),
     DataProperty("dt-end", <<"21:15", "-08:00">>),
     El("template", NoAttr)}

\* <div class="h-event"> three of them </div>
EndDateDocs ==
    {[parent |-> <<0, 1, 2, 2, 2>>,
      node |-> <<DocumentNode, El("div", Class(<<"h-event">>)), k1, k2, k3>>] :
        k1 \in EndDatePalette, k2 \in EndDatePalette, k3 \in EndDatePalette}

InitEndDate ==
    /\ doc \in EndDateDocs
    /\ base = Some(ExampleBase)
    /\ heap = <<>>
    /\ items = <<>>
    /\ rels = [x \in {} |-> x]
    /\ relURLs = [x \in {} |-> x]
    /\ curItem = 0
    /\ baseFound = FALSE
    /\ stack = <<Frame(0, 0, 0, <<>>, <<>>)>>
    /\ panicked = FALSE
    /\ datetime = ZeroDatetime
    /\ calls = <<>>

SpecEndDate == InitEndDate /\ [][Next]_vars

\* the value attributes of the elements of a class, in document order
ValuesOfClass(class) ==
    LET ns == SelectSeq([i \in 1..Len(doc.node) |-> i], LAMBDA n : HasClass(doc, n, class))
    IN  [i \in 1..Len(ns) |-> getAttr(doc, ns[i], "value")]

HasDate(s) == dtValid(s) /\ dtPiece(s, "d") # <<>>

TimeOnly(s) == dtValid(s) /\ dtPiece(s, "d") = <<>> /\ dtPiece(s, "t") # <<>>

\* the end value the claim gives for e when the start values are starts
EndExpected(e, starts) ==
    LET dated == {i \in 1..Len(starts) : HasDate(starts[i])} IN
    IF TimeOnly(e) /\ dated # {}
    THEN LET first == CHOOSE i \in dated : \A j \in dated : i <= j IN
         dtPiece(starts[first], "d") \o <<WS>> \o dtPiece(e, "t")
             \o (IF dtPiece(e, "z") = <<>> THEN <<>> ELSE <<TZCanon(dtPiece(e, "z")[1])>>)
    ELSE e

\* C27: when the item has been finalised, every end value that is a time
\* without a date is the date of the first start value that has a date
\* followed by that time, every other end value is as it was written, and
\* so are all end values when no start value has a date; the start values
\* are as they were written.
C27_ImplyEndDate ==
    (Len(heap) = 1 /\ Closed(1)) =>
        LET starts == ValuesOfClass("dt-start")
            ends == ValuesOfClass("dt-end")
        IN  /\ PropValues(heap[1].Properties, "start")
                  = [i \in 1..Len(starts) |-> StringValue(starts[i])]
            /\ PropValues(heap[1].Properties, "end")
                  = [i \in 1..Len(ends) |-> StringValue(EndExpected(ends[i], starts))]

\* the first start has no date, the second has: the end that is a time
\* gets the date of the second, the end that has a date keeps it
C27_Witness ==
    /\ Done
    /\ ValuesOfClass("dt-start") = <<<<"03:04:05">>, <<"2007-01-02">>>>
    /\ ValuesOfClass("dt-end") = <<<<"01:02:03">>>>
    /\ heap[1].Properties["end"] = <<StringValue(<<"2007-01-02", WS, "01:02:03">>)>>

\* ------------------------------------------------------------------------
\* The order of the translated property classes
\* ------------------------------------------------------------------------
\* the properties of all items after the loop over propertyclasses of the
\* call f, when the slice is props
PropertiesAfter(H, f, pcur, props) ==
    LET S == Emit([heap |-> H, doc |-> doc], f, pcur, props) IN
    [i \in 1..Len(S.heap) |-> S.heap[i].Properties]

\* C28: the properties a call of walk leaves do not depend on the order in
\* which backcompatPropertyClasses returns the property classes of its
\* node, so that two parses of a document give the same Data.
C28_OrderFree ==
    (~panicked /\ Len(stack) > 1 /\ NextChild = 0) =>
        \A q1, q2 \in PropertyClasses(AfterChildren(Top), Top.classes, Top.rels,
                                      CurAfterChildren(Top)) :
            PropertiesAfter(AfterChildren(Top), Top, CurAfterChildren(Top), q1)
                = PropertiesAfter(AfterChildren(Top), Top, CurAfterChildren(Top), q2)

\* the two parses of <div class="vcard hreview"><a class="category"
\* rel="tag bookmark" href="/t/x"></a></div>: url is the resolved href in
\* one and the resolved last segment of it in the other
C28_TwoResults ==
    \E m \in 1..Len(heap) :
        /\ Done
        /\ heap[m].backcompat
        /\ PropValues(heap[m].Properties, "category") = <<StringValue(<<"x">>)>>
        /\ PropValues(heap[m].Properties, "url") = <<StringValue(<<"http://example.com", "/", "x">>)>>

C28_OtherResult ==
    \E m \in 1..Len(heap) :
        /\ Done
        /\ heap[m].backcompat
        /\ PropValues(heap[m].Properties, "category") = <<StringValue(<<"x">>)>>
        /\ PropValues(heap[m].Properties, "url")
              = <<StringValue(<<"http://example.com", "/", "t", "/", "x">>)>>

\* ------------------------------------------------------------------------
\* The implied photo
\* ------------------------------------------------------------------------
\* root elements that can hold a photo themselves, with and without it
PhotoRoots ==
    {El("img", [class |-> <<"h-card">>, alt |-> <<"A">>]),
     El("img", [class |-> <<"h-card">>, src |-> <<"/", "i.png">>, alt |-> <<"A">>]),
     El("img", [class |-> <<"h-card">>, src |-> <<"/", "i.png">>]),
     El("object", [class |-> <<"h-card">>, data |-> <<"/", "o">>]),
     El("object", Class(<<"h-card">>))}

\* what can be below a root
PhotoKids ==
    {El("img", [src |-> <<"/", "i.png">>, alt |-> <<"A">>]),
     El("img", [alt |-> <<"A">>]),
     El("object", [data |-> <<"/", "o">>]),
     El("object", NoAttr),
     El("span", NoAttr),
     El("template", NoAttr)}

\* a root alone; a div root with one child, with two, with a child and a
\* grandchild
PhotoDocs ==
    {[parent |-> <<0, 1>>, node |-> <<DocumentNode, r>>] : r \in PhotoRoots}
    \cup
    {[parent |-> <<0, 1, 2>>, node |-> <<DocumentNode, El("div", Class(<<"h-card">>)), k>>] :
        k \in PhotoKids}
    \cup
    {[parent |-> <<0, 1, 2, 2>>,
      node |-> <<DocumentNode, El("div", Class(<<"h-card">>)), k1, k2>>] :
        k1 \in PhotoKids, k2 \in PhotoKids}
    \cup
    {[parent |-> <<0, 1, 2, 3>>,
      node |-> <<DocumentNode, El("div", Class(<<"h-card">>)), c, k>>] :
        c \in {El("span", NoAttr), El("div", Class(<<"h-card">>))}, k \in PhotoKids}

InitPhoto ==
    /\ doc \in PhotoDocs
    /\ base = Some(ExampleBase)
    /\ heap = <<>>
    /\ items = <<>>
    /\ rels = [x \in {} |-> x]
    /\ relURLs = [x \in {} |-> x]
    /\ curItem = 0
    /\ baseFound = FALSE
    /\ stack = <<Frame(0, 0, 0, <<>>, <<>>)>>
    /\ panicked = FALSE
    /\ datetime = ZeroDatetime
    /\ calls = <<>>

SpecPhoto == InitPhoto /\ [][Next]_vars

\* s is node n, a child of it or a grandchild of it
WithinTwo(D, s, n) ==
    \/ s = n
    \/ D.parent[s] = n
    \/ D.parent[s] # 0 /\ D.parent[D.parent[s]] = n

\* s holds a photo: the src of an img or the data of an object
HoldsPhoto(D, s) ==
    \/ isAtom(D, s, {"img"}) /\ hasAttr(D, s, "src")
    \/ isAtom(D, s, {"object"}) /\ hasAttr(D, s, "data")

\* C29: an item has a photo property only when some node among its own
\* node, the children and the grandchildren of it is an img with a src or
\* an object with a data attribute; none of the documents here has a u-*
\* class, so that every photo is an implied one.
C29_PhotoFound ==
    \A m \in 1..Len(heap) :
        "photo" \in DOMAIN heap[m].Properties =>
            \E s \in 1..Len(doc.node) :
                WithinTwo(doc, s, heap[m].node) /\ HoldsPhoto(doc, s)

\* where a photo was found the property is its resolved value
C29_FoundPhotoImplied ==
    \A m \in 1..Len(heap) :
        ("photo" \in DOMAIN heap[m].Properties /\ heap[m].implied["photo"] # 0) =>
            /\ HoldsPhoto(doc, heap[m].implied["photo"])
            /\ WithinTwo(doc, heap[m].implied["photo"], heap[m].node)

\* ------------------------------------------------------------------------
\* The items that can be reached in Data
\* ------------------------------------------------------------------------
\* the items whose copies are values of the properties of item c
NestedIn(c) == {v.ref : v \in {w \in AllValues(heap[c]) : w.kind = "mf"}}

\* ptrs are the items reached as *Microformat of Items or Children, copies
\* those reached as a nested value, which has the Properties of the item
\* and no Children: the items reached from them
RECURSIVE ReachedFrom(_, _)
ReachedFrom(ptrs, copies) ==
    LET ptrs1 == ptrs \cup UNION {Range(heap[c].Children) : c \in ptrs}
        copies1 == copies \cup UNION {NestedIn(c) : c \in ptrs \cup copies}
    IN  IF ptrs1 = ptrs /\ copies1 = copies THEN ptrs \cup copies
        ELSE ReachedFrom(ptrs1, copies1)

\* the items that can be reached from Data.Items
Reachable == ReachedFrom(Range(items), {})

\* C30: when ParseNode returns, every item the walk opened can be reached
\* from Data.Items through nested values and Children.
C30_NoItemLost == Done => \A c \in 1..Len(heap) : c \in Reachable

\* every item that is not below the Children of a nested value is reached
C30_OthersReached ==
    Done => \A c \in 1..Len(heap) :
                c \in Reachable
                \/ \E b \in 1..Len(heap) :
                      /\ c \in Range(heap[b].Children)
                      /\ b \notin Range(items)
                      /\ \A a \in 1..Len(heap) : b \notin Range(heap[a].Children)

====
